---- MODULE Spec2Model ----
(***************************************************************************)
(* Lot-tracking ledger and pending-operation reconciliation of `sys`.      *)
(*                                                                         *)
(* The command handlers (src/src/bin/sys.rs) are translated from their     *)
(* code.  The ledger store they call (module db: Db, TrackedAccount, Lot,  *)
(* record, confirm and cancel operations) is not among the source files;   *)
(* its operations are modelled from the design document (spec.md,          *)
(* sections 3, 4 and 7) and from the way the handlers call them.           *)
(***************************************************************************)
EXTENDS Integers, Sequences, FiniteSets, TLC

\* ------------------------------------------------------------------ bounds
MaxLots == 3        \* lot numbers handed out by next_lot_number in one run
MaxAmount == 2      \* largest amount a single command or chain fact carries
MaxPrice == 2       \* unit prices 1..MaxPrice
MaxSigs == 2        \* transactions signed (or named) in one run
MaxHeight == 2      \* block heights 0..MaxHeight; one block is one day and one epoch
ValidBlocks == 1    \* blocks for which a recent blockhash stays valid
MaxDisposed == 2    \* disposed lots kept in the history in one run
MaxBalance == 4     \* largest balance the chain reports for an account
MaxAcquired == 10   \* latest acquisition day the gain calculator is asked about
HoldSpread == 5     \* holding periods asked about lie this close to the threshold
MaxSleeps == 2      \* sleeps of the send loop after which two seconds have passed
MaxInstances == 3   \* instances of the program started on one store
MaxWrites == 2      \* mutations of the store counted in one run
MaxEpoch == 3       \* epochs 0..MaxEpoch in the runs of the reward scan

\* --------------------------------------------------------------- universes
Addresses == {"a1", "a2"}
Tokens == {"SOL", "wSOL"}
\* Tracked (address, token) pairs: a1 holds SOL and wSOL, a2 holds SOL
Keys == {<<"a1", "SOL">>, <<"a1", "wSOL">>, <<"a2", "SOL">>}
Dates == 0..MaxHeight
Prices == 1..MaxPrice
Amounts == 0..MaxAmount
Sigs == 1..MaxSigs
Methods == {"FirstInFirstOut", "LastInFirstOut", "LowestBasis", "HighestBasis"}

\* Option<HashSet<usize>>: None, or Some(set of lot numbers)
NoLotNumbers == [some |-> FALSE, set |-> {}]
SomeLotNumbers(S) == [some |-> TRUE, set |-> S]
\* Option<u64>: None is -1
NoAmount == 0 - 1
\* Option<NaiveDate>: None is -1
NoDate == 0 - 1

VARIABLES
    db,            \* the ledger store (Db): accounts, disposed lots, lot counter, pending sets
    block_height,  \* chain: current block height (the epoch is derived from it)
    sig_status,    \* chain: status of each signature: none, processed, ok, err
    sig_date,      \* chain: the day each signature's transaction landed, or NoDate
    next_sig,      \* the next fresh transaction signature
    fate,          \* history: the terminal events each signature's pending record went through
    last,          \* history: the error the last command ended its store calls with, or ""
    calc,          \* the gain calculator: its last inputs and what it answered
    send,          \* send_transaction_until_expired: the loop's position and locals
    lock           \* the store directory's lock and the process instances using it

vars == <<db, block_height, sig_status, sig_date, next_sig, fate, last, calc, send, lock>>

\* ------------------------------------------------------------ sequence helpers
RECURSIVE SumAmounts(_)
SumAmounts(lots) ==
    IF lots = <<>> THEN 0 ELSE Head(lots).amount + SumAmounts(Tail(lots))

LotNumbersOf(lots) == {lots[i].lot_number : i \in DOMAIN lots}

\* ------------------------------------------------------------------ tokens
is_sol(token) == token = "SOL"
is_token(token) == token # "SOL"

\* ------------------------------------------------------- lot selection order
\* cmp_lots: TRUE when lot a comes strictly before lot b under the method;
\* equal keys are ordered by ascending lot_number.
LotKeyBefore(method, a, b) ==
    CASE method = "FirstInFirstOut" -> a.when < b.when
      [] method = "LastInFirstOut" -> a.when > b.when
      [] method = "LowestBasis" -> a.price < b.price
      [] method = "HighestBasis" -> a.price > b.price

cmp_lots(method, a, b) ==
    \/ LotKeyBefore(method, a, b)
    \/ /\ ~LotKeyBefore(method, b, a)
       /\ a.lot_number < b.lot_number

RECURSIVE InsertLot(_, _, _)
InsertLot(method, lot, sorted) ==
    IF sorted = <<>> THEN <<lot>>
    ELSE IF cmp_lots(method, lot, Head(sorted)) THEN <<lot>> \o sorted
         ELSE <<Head(sorted)>> \o InsertLot(method, lot, Tail(sorted))

RECURSIVE SortLots(_, _)
SortLots(method, lots) ==
    IF lots = <<>> THEN <<>>
    ELSE InsertLot(method, Head(lots), SortLots(method, Tail(lots)))

\* Walk the sorted pool, taking lots until `amount` is covered.  The last lot
\* taken may be split: the taken part keeps the lot_number and acquisition.
RECURSIVE TakeLots(_, _)
TakeLots(sorted, amount) ==
    IF amount = 0 \/ sorted = <<>> THEN [taken |-> <<>>, rest |-> sorted]
    ELSE LET lot == Head(sorted) IN
         IF lot.amount <= amount
         THEN LET r == TakeLots(Tail(sorted), amount - lot.amount) IN
              [taken |-> <<lot>> \o r.taken, rest |-> r.rest]
         ELSE [taken |-> <<[lot EXCEPT !.amount = amount]>>,
               rest |-> <<[lot EXCEPT !.amount = lot.amount - amount]>> \o Tail(sorted)]

\* extract_lots(pool, requested_amount, method, optional_lot_numbers)
extract_lots(lots, amount, method, lot_numbers) ==
    LET Chosen(l) == l.lot_number \in lot_numbers.set
        Other(l) == l.lot_number \notin lot_numbers.set
        pool == IF lot_numbers.some THEN SelectSeq(lots, Chosen) ELSE lots
        others == IF lot_numbers.some THEN SelectSeq(lots, Other) ELSE <<>>
        r == TakeLots(SortLots(method, pool), amount)
    IN  IF lot_numbers.some /\ ~(lot_numbers.set \subseteq LotNumbersOf(lots))
        THEN [err |-> "LotNotFound", taken |-> <<>>, rest |-> lots]
        ELSE IF SumAmounts(pool) < amount
        THEN [err |-> "InsufficientLots", taken |-> <<>>, rest |-> lots]
        ELSE [err |-> "", taken |-> r.taken, rest |-> r.rest \o others]

\* ------------------------------------------------------------ the ledger store
\* TrackedAccount (its address and token are the key it is stored under)
TrackedAccount(epoch, balance, lots, no_sync) ==
    [last_update_epoch |-> epoch, last_update_balance |-> balance,
     lots |-> lots, no_sync |-> no_sync]

\* Lot: lot_number, acquisition (when, price, kind) and amount
Lot(lot_number, when, price, kind, amount) ==
    [lot_number |-> lot_number, when |-> when, price |-> price,
     kind |-> kind, amount |-> amount]

\* DisposedLot: the lot snapshot with the disposed amount, and the disposal
DisposedLot(lot, when, price, kind) ==
    [lot |-> lot, when |-> when, price |-> price, kind |-> kind]

Tracked(d, key) == key \in DOMAIN d.accounts

get_account(d, key) == d.accounts[key]

\* assert_lot_balance
LotBalanceOk(account) == account.last_update_balance = SumAmounts(account.lots)

PutAccount(d, key, account) ==
    [d EXCEPT !.accounts = (key :> account) @@ d.accounts]

add_account(d, key, account) ==
    IF Tracked(d, key) THEN [err |-> "AlreadyExists", db |-> d]
    ELSE [err |-> "", db |-> PutAccount(d, key, account)]

update_account(d, key, account) ==
    IF ~Tracked(d, key) THEN [err |-> "NotFound", db |-> d]
    ELSE [err |-> "", db |-> PutAccount(d, key, account)]

\* next_lot_number: the persisted counter; every call takes a new number
next_lot_number(d) ==
    [n |-> d.lot_number, db |-> [d EXCEPT !.lot_number = d.lot_number + 1]]

RECURSIVE DisposeAll(_, _, _, _)
DisposeAll(lots, when, price, kind) ==
    IF lots = <<>> THEN <<>>
    ELSE <<DisposedLot(Head(lots), when, price, kind)>>
         \o DisposeAll(Tail(lots), when, price, kind)

\* The disposal pipeline shared by record_disposal, record_drop and confirm_swap:
\* extract the lots, shrink the account, append one DisposedLot per extracted lot.
Dispose(d, key, amount, when, price, kind, method, lot_numbers) ==
    IF ~Tracked(d, key) THEN [err |-> "NotFound", db |-> d, disposed |-> <<>>]
    ELSE LET account == get_account(d, key)
             x == extract_lots(account.lots, amount, method, lot_numbers)
             records == DisposeAll(x.taken, when, price, kind)
         IN  IF x.err # "" THEN [err |-> x.err, db |-> d, disposed |-> <<>>]
             ELSE [err |-> "",
                   db |-> [PutAccount(d, key,
                              [account EXCEPT !.lots = x.rest,
                                              !.last_update_balance = @ - amount])
                           EXCEPT !.disposed_lots = @ \o records],
                   disposed |-> records]

record_disposal(d, key, amount, when, price, method, lot_numbers) ==
    Dispose(d, key, amount, when, price, "Usd", method, lot_numbers)

record_drop(d, key, amount, method, lot_numbers) ==
    Dispose(d, key, amount, 0, 0, "Drop", method, lot_numbers)

\* ------------------------------------------------------- lots and accounts (store)
\* The order in which the store lists the accounts
KeyOrder == << <<"a1", "SOL">>, <<"a1", "wSOL">>, <<"a2", "SOL">> >>

\* The accounts that hold a lot with the number, and the first of them
Holders(d, lot_number) ==
    {key \in DOMAIN d.accounts : lot_number \in LotNumbersOf(get_account(d, key).lots)}

Holder(d, lot_number) ==
    KeyOrder[CHOOSE i \in DOMAIN KeyOrder :
                /\ KeyOrder[i] \in Holders(d, lot_number)
                /\ \A j \in 1..(i - 1) : KeyOrder[j] \notin Holders(d, lot_number)]

LotOf(lots, lot_number) ==
    lots[CHOOSE i \in DOMAIN lots : lots[i].lot_number = lot_number]

ReplaceLot(lots, lot_number, lot) ==
    [i \in DOMAIN lots |-> IF lots[i].lot_number = lot_number THEN lot ELSE lots[i]]

RemoveLot(lots, lot_number) == SelectSeq(lots, LAMBDA l : l.lot_number # lot_number)

\* The account gets these lots, and the balance they add up to
WithLots(d, key, lots) ==
    PutAccount(d, key, [get_account(d, key) EXCEPT !.lots = lots,
                                                  !.last_update_balance = SumAmounts(lots)])

DisposedLotNumbers(d) == {d.disposed_lots[i].lot.lot_number : i \in DOMAIN d.disposed_lots}

\* remove_account: the store does not look at the lots; the caller does
remove_account(d, key) ==
    IF ~Tracked(d, key) THEN [err |-> "NotFound", db |-> d]
    ELSE [err |-> "",
          db |-> [d EXCEPT !.accounts = [k \in DOMAIN @ \ {key} |-> @[k]]]]

\* swap_lots: each lot goes to the account that held the other
swap_lots(d, lot_number1, lot_number2) ==
    IF Holders(d, lot_number1) = {} \/ Holders(d, lot_number2) = {}
    THEN [err |-> "NotFound", db |-> d]
    ELSE LET key1 == Holder(d, lot_number1)
             key2 == Holder(d, lot_number2)
             lot1 == LotOf(get_account(d, key1).lots, lot_number1)
             lot2 == LotOf(get_account(d, key2).lots, lot_number2)
             d1 == WithLots(d, key1, ReplaceLot(get_account(d, key1).lots, lot_number1, lot2))
         IN  IF key1 = key2 THEN [err |-> "", db |-> d]
             ELSE [err |-> "",
                   db |-> WithLots(d1, key2,
                              ReplaceLot(get_account(d1, key2).lots, lot_number2, lot1))]

\* move_lot: the lot goes to the account of the same token at to_address
move_lot(d, lot_number, to_address) ==
    IF Holders(d, lot_number) = {} THEN [err |-> "NotFound", db |-> d]
    ELSE LET from == Holder(d, lot_number)
             to == <<to_address, from[2]>>
             lot == LotOf(get_account(d, from).lots, lot_number)
             d1 == WithLots(d, from, RemoveLot(get_account(d, from).lots, lot_number))
         IN  IF ~Tracked(d, to) THEN [err |-> "NotFound", db |-> d]
             ELSE IF to = from THEN [err |-> "", db |-> d]
             ELSE [err |-> "",
                   db |-> WithLots(d1, to, Append(get_account(d1, to).lots, lot))]

\* delete_lot: a lot that has a disposal record is not deleted
delete_lot(d, lot_number) ==
    IF lot_number \in DisposedLotNumbers(d) THEN [err |-> "LotDisposed", db |-> d]
    ELSE IF Holders(d, lot_number) = {} THEN [err |-> "NotFound", db |-> d]
    ELSE LET key == Holder(d, lot_number)
         IN  [err |-> "",
              db |-> WithLots(d, key, RemoveLot(get_account(d, key).lots, lot_number))]

\* ------------------------------------------------- pending operations (store)
PendingTransfer(signature, lvbh, amount, from, to, method, lot_numbers) ==
    [signature |-> signature, last_valid_block_height |-> lvbh, amount |-> amount,
     from |-> from, to |-> to, lot_selection_method |-> method,
     lot_numbers |-> lot_numbers]

PendingSwap(signature, lvbh, address, from_token, from_token_price, to_token, to_token_price, method) ==
    [signature |-> signature, last_valid_block_height |-> lvbh, address |-> address,
     from_token |-> from_token, from_token_price |-> from_token_price,
     to_token |-> to_token, to_token_price |-> to_token_price,
     lot_selection_method |-> method]

\* PendingDeposit: the transfer descriptor, the amount and the exchange
PendingDeposit(signature, lvbh, from, to, amount, exchange) ==
    [signature |-> signature, last_valid_block_height |-> lvbh,
     from |-> from, to |-> to, amount |-> amount, exchange |-> exchange]

SignaturesOf(records) == {records[i].signature : i \in DOMAIN records}

PendingSignatures(d) ==
    SignaturesOf(d.pending_transfers) \cup SignaturesOf(d.pending_swaps)
        \cup SignaturesOf(d.pending_deposits)

Without(records, signature) ==
    SelectSeq(records, LAMBDA r : r.signature # signature)

Find(records, signature) ==
    records[CHOOSE i \in DOMAIN records : records[i].signature = signature]

record_transfer(d, signature, lvbh, amount, from, to, method, lot_numbers) ==
    IF signature \in PendingSignatures(d) THEN [err |-> "InvariantViolation", db |-> d]
    ELSE [err |-> "",
          db |-> [d EXCEPT !.pending_transfers = Append(@,
                     PendingTransfer(signature, lvbh, amount, from, to, method,
                                     lot_numbers))]]

cancel_transfer(d, signature) ==
    IF signature \notin SignaturesOf(d.pending_transfers)
    THEN [err |-> "NotFound", db |-> d]
    ELSE [err |-> "",
          db |-> [d EXCEPT !.pending_transfers = Without(@, signature)]]

\* Move `amount` of the lots of `from` (all of them when no amount was recorded)
\* to `to`, which is created when it is not tracked.
MoveLots(d, from, to, amount, method, lot_numbers) ==
    IF ~Tracked(d, from) THEN [err |-> "NotFound", db |-> d]
    ELSE LET from_account == get_account(d, from)
             moved == IF amount = NoAmount THEN from_account.last_update_balance
                      ELSE amount
             x == extract_lots(from_account.lots, moved, method, lot_numbers)
             d1 == PutAccount(d, from,
                       [from_account EXCEPT !.lots = x.rest,
                                            !.last_update_balance = @ - moved])
             to_account == IF Tracked(d1, to) THEN get_account(d1, to)
                           ELSE TrackedAccount(from_account.last_update_epoch, 0,
                                               <<>>, FALSE)
         IN  IF x.err # "" THEN [err |-> x.err, db |-> d]
             ELSE [err |-> "",
                   db |-> PutAccount(d1, to,
                             [to_account EXCEPT !.lots = @ \o x.taken,
                                                !.last_update_balance = @ + moved])]

confirm_transfer(d, signature, when) ==
    IF signature \notin SignaturesOf(d.pending_transfers)
    THEN [err |-> "NotFound", db |-> d]
    ELSE LET t == Find(d.pending_transfers, signature)
             m == MoveLots(d, t.from, t.to, t.amount, t.lot_selection_method,
                           t.lot_numbers)
         IN  IF m.err # "" THEN [err |-> m.err, db |-> d]
             ELSE [err |-> "",
                   db |-> [m.db EXCEPT !.pending_transfers = Without(@, signature)]]

record_swap(d, signature, lvbh, address, from_token, from_token_price, to_token, to_token_price, method) ==
    IF signature \in PendingSignatures(d) THEN [err |-> "InvariantViolation", db |-> d]
    ELSE [err |-> "",
          db |-> [d EXCEPT !.pending_swaps = Append(@,
                     PendingSwap(signature, lvbh, address, from_token,
                                 from_token_price, to_token, to_token_price, method))]]

cancel_swap(d, signature) ==
    IF signature \notin SignaturesOf(d.pending_swaps)
    THEN [err |-> "NotFound", db |-> d]
    ELSE [err |-> "", db |-> [d EXCEPT !.pending_swaps = Without(@, signature)]]

\* Dispose from_amount of the from-token lots at the recorded from-token price and
\* add one to-token lot of to_amount, dated `when`, at the recorded to-token price.
confirm_swap(d, signature, when, from_amount, to_amount) ==
    IF signature \notin SignaturesOf(d.pending_swaps)
    THEN [err |-> "NotFound", db |-> d]
    ELSE LET s == Find(d.pending_swaps, signature)
             from == <<s.address, s.from_token>>
             to == <<s.address, s.to_token>>
             x == Dispose(d, from, from_amount, when, s.from_token_price, "Swap",
                          s.lot_selection_method, NoLotNumbers)
             n == next_lot_number(x.db)
             to_account == get_account(n.db, to)
             lot == Lot(n.n, when, s.to_token_price, "Swap", to_amount)
         IN  IF ~Tracked(d, to) THEN [err |-> "NotFound", db |-> d]
             ELSE IF x.err # "" THEN [err |-> x.err, db |-> d]
             ELSE [err |-> "",
                   db |-> [PutAccount(n.db, to,
                              [to_account EXCEPT !.lots = Append(@, lot),
                                                 !.last_update_balance = @ + to_amount])
                           EXCEPT !.pending_swaps = Without(@, signature)]]

\* The selection method and lot numbers the handler passes are not part of the
\* pending deposit the design describes, and are not kept.
record_deposit(d, signature, lvbh, from, amount, exchange, to, method, lot_numbers) ==
    IF signature \in PendingSignatures(d) THEN [err |-> "InvariantViolation", db |-> d]
    ELSE [err |-> "",
          db |-> [d EXCEPT !.pending_deposits = Append(@,
                     PendingDeposit(signature, lvbh, from, to, amount, exchange))]]

cancel_deposit(d, signature) ==
    IF signature \notin SignaturesOf(d.pending_deposits)
    THEN [err |-> "NotFound", db |-> d]
    ELSE [err |-> "", db |-> [d EXCEPT !.pending_deposits = Without(@, signature)]]

\* Credit the deposit's amount to the destination account as one new lot dated
\* `when`.  The design does not fix the unit price of that lot: `price` is any price.
confirm_deposit(d, signature, when, price) ==
    IF signature \notin SignaturesOf(d.pending_deposits)
    THEN [err |-> "NotFound", db |-> d]
    ELSE LET p == Find(d.pending_deposits, signature)
             n == next_lot_number(d)
             to_account == IF Tracked(d, p.to) THEN get_account(d, p.to)
                           ELSE TrackedAccount(0, 0, <<>>, TRUE)
             lot == Lot(n.n, when, price, "Transaction", p.amount)
         IN  [err |-> "",
              db |-> [PutAccount(n.db, p.to,
                         [to_account EXCEPT !.lots = Append(@, lot),
                                            !.last_update_balance = @ + p.amount])
                      EXCEPT !.pending_deposits = Without(@, signature)]]

\* drop_deposit: the pending record is removed and the deposited funds get no
\* lot: nothing is attached to the destination account.
drop_deposit(d, signature) ==
    IF signature \notin SignaturesOf(d.pending_deposits)
    THEN [err |-> "NotFound", db |-> d]
    ELSE [err |-> "", db |-> [d EXCEPT !.pending_deposits = Without(@, signature)]]

\* PendingWithdrawal: exchange tag, token, amount, fee, the exchange's account
\* the lots come from, the destination, and the lot selection of the request
PendingWithdrawal(tag, token, amount, fee, from, to, method, lot_numbers) ==
    [tag |-> tag, token |-> token, amount |-> amount, fee |-> fee, from |-> from,
     to |-> to, lot_selection_method |-> method, lot_numbers |-> lot_numbers]

TagsOf(records) == {records[i].tag : i \in DOMAIN records}

FindTag(records, tag) ==
    records[CHOOSE i \in DOMAIN records : records[i].tag = tag]

WithoutTag(records, tag) ==
    SelectSeq(records, LAMBDA r : r.tag # tag)

\* The lots are selected at request time, and disposed only at confirmation.
record_withdrawal(d, tag, token, amount, fee, from, to, method, lot_numbers) ==
    IF tag \in TagsOf(d.pending_withdrawals) THEN [err |-> "InvariantViolation", db |-> d]
    ELSE IF ~Tracked(d, from) THEN [err |-> "NotFound", db |-> d]
    ELSE LET x == extract_lots(get_account(d, from).lots, amount, method, lot_numbers)
         IN  IF x.err # "" THEN [err |-> x.err, db |-> d]
             ELSE [err |-> "",
                   db |-> [d EXCEPT !.pending_withdrawals = Append(@,
                              PendingWithdrawal(tag, token, amount, fee, from, to, method,
                                                lot_numbers))]]

cancel_withdrawal(d, tag) ==
    IF tag \notin TagsOf(d.pending_withdrawals)
    THEN [err |-> "NotFound", db |-> d]
    ELSE [err |-> "", db |-> [d EXCEPT !.pending_withdrawals = WithoutTag(@, tag)]]

\* Dispose the withdrawal's amount from the exchange's account on `when`.  The
\* design gives the disposal no unit price; the fee stays with the record.
confirm_withdrawal(d, tag, when) ==
    IF tag \notin TagsOf(d.pending_withdrawals)
    THEN [err |-> "NotFound", db |-> d]
    ELSE LET p == FindTag(d.pending_withdrawals, tag)
             r == Dispose(d, p.from, p.amount, when, 0, "Withdrawal",
                          p.lot_selection_method, p.lot_numbers)
         IN  IF r.err # "" THEN [err |-> r.err, db |-> d]
             ELSE [err |-> "",
                   db |-> [r.db EXCEPT !.pending_withdrawals = WithoutTag(@, tag)]]

\* ------------------------------------------------------- chain and price oracle
\* The chain's clock: one block is one day and one epoch.
Epoch == block_height
today == block_height

\* Prices come from the price oracle (CoinGecko, or the --price argument): every
\* handler that prices a lot or a disposal takes the price as an input.

\* ------------------------------------------------------------ gain calculator
\* chrono::Duration::try_days(365): the holding period of a long-term gain
LongTermDays == 365

\* A variant of is_long_term_cap_gain that asks for more than the holding period.
is_long_term_cap_gain_after(acquisition, disposal) ==
    LET disposed == IF disposal # NoDate THEN disposal ELSE today
    IN  disposed - acquisition > LongTermDays

\* is_long_term_cap_gain(acquisition, disposal): dates are days; `disposal` is a
\* date or NoDate (None), which stands for today
is_long_term_cap_gain(acquisition, disposal) ==
    LET disposed == IF disposal # NoDate THEN disposal ELSE today
        hold_time == disposed - acquisition
    IN  hold_time >= LongTermDays

\* Amounts of money and of tokens in user units are decimal fractions: n / d
Fraction(n, d) == [n |-> n, d |-> d]
Times(q, k) == Fraction(q.n * k, q.d)
Minus(q, r) == Fraction(q.n * r.d - r.n * q.d, q.d * r.d)
IsWhole(q, k) == q.n = k * q.d

\* Token::decimals; one decimal place stands for the nine of SOL
decimals(token) == 1

\* Token::ui_amount: the amount in base units as a number of tokens
ui_amount(token, amount) == Fraction(amount, 10 ^ decimals(token))

\* Lot::basis
basis(lot, token) == Times(ui_amount(token, lot.amount), lot.price)

\* Lot::income: the basis of a lot that was acquired as income
lot_income(lot, token) ==
    IF lot.kind \in {"EpochReward", "NotAvailable"} THEN basis(lot, token)
    ELSE Fraction(0, 1)

\* Lot::cap_gain
cap_gain(lot, token, price) == Minus(Times(ui_amount(token, lot.amount), price), basis(lot, token))

\* A variant of format_disposed_lot that classifies the gain as of today.
format_disposed_lot_today(token, disposed_lot) ==
    [cap_gain |-> cap_gain(disposed_lot.lot, token, disposed_lot.price),
     income |-> lot_income(disposed_lot.lot, token),
     long_term_cap_gain |-> is_long_term_cap_gain(disposed_lot.lot.when, NoDate)]

\* format_disposed_lot: the gain, the income and the class of the gain that
\* the report prints for a disposed lot
format_disposed_lot(token, disposed_lot) ==
    [cap_gain |-> cap_gain(disposed_lot.lot, token, disposed_lot.price),
     income |-> lot_income(disposed_lot.lot, token),
     long_term_cap_gain |-> is_long_term_cap_gain(disposed_lot.lot.when, disposed_lot.when)]

\* The calculator before it was asked anything
NoCalc == [acquisition |-> NoDate, disposal |-> NoDate, long_term |-> FALSE]

\* A gain is classified: format_lot / format_disposed_lot ask is_long_term_cap_gain
ClassifyGain(acquisition, disposal) ==
    /\ calc' = [acquisition |-> acquisition, disposal |-> disposal,
                long_term |-> is_long_term_cap_gain(acquisition, disposal)]
    /\ UNCHANGED <<db, block_height, sig_status, sig_date, next_sig, fate, last, send, lock>>

\* ------------------------------------------------------------------ handlers
\* `sys account add` without --signature; `when` is a date or NoDate (None)
\* A variant of `sys account add` that numbers the lot but does not keep the
\* advanced counter.
ProcessAccountAddReusing(key, when, decimal_price, income, no_sync, amount) ==
    LET kind == IF income THEN "NotAvailable" ELSE "Fiat"
        last_update_epoch == IF Epoch = 0 THEN 0 ELSE Epoch - 1
        acquired == IF when # NoDate THEN when ELSE today
        lots == IF amount > 0
                THEN <<Lot(db.lot_number, acquired, decimal_price, kind, amount)>>
                ELSE <<>>
        r == add_account(db, key, TrackedAccount(last_update_epoch, amount, lots, no_sync))
    IN  /\ amount > 0 => db.lot_number <= MaxLots
        /\ db' = r.db
        /\ last' = r.err
        /\ UNCHANGED <<block_height, sig_status, sig_date, next_sig, fate, calc, send, lock>>

\* A variant of `sys account add` that replaces an account already tracked.
process_account_add_replacing(key, when, decimal_price, income, no_sync, amount) ==
    LET kind == IF income THEN "NotAvailable" ELSE "Fiat"
        last_update_epoch == IF Epoch = 0 THEN 0 ELSE Epoch - 1
        acquired == IF when # NoDate THEN when ELSE today
        n == next_lot_number(db)
        d1 == IF amount > 0 THEN n.db ELSE db
        lots == IF amount > 0 THEN <<Lot(n.n, acquired, decimal_price, kind, amount)>>
                ELSE <<>>
        account == TrackedAccount(last_update_epoch, amount, lots, no_sync)
    IN  IF Tracked(d1, key) THEN update_account(d1, key, account)
        ELSE add_account(d1, key, account)

\* `sys account add` without --signature: what the command does to the store
process_account_add(key, when, decimal_price, income, no_sync, amount) ==
    LET kind == IF income THEN "NotAvailable" ELSE "Fiat"
        last_update_epoch == IF Epoch = 0 THEN 0 ELSE Epoch - 1
        acquired == IF when # NoDate THEN when ELSE today
        n == next_lot_number(db)
        d1 == IF amount > 0 THEN n.db ELSE db
        lots == IF amount > 0 THEN <<Lot(n.n, acquired, decimal_price, kind, amount)>>
                ELSE <<>>
    IN  add_account(d1, key, TrackedAccount(last_update_epoch, amount, lots, no_sync))

ProcessAccountAdd(key, when, decimal_price, income, no_sync, amount) ==
    LET r == process_account_add(key, when, decimal_price, income, no_sync, amount)
    IN  /\ amount > 0 => db.lot_number <= MaxLots
        /\ db' = r.db
        /\ last' = r.err
        /\ UNCHANGED <<block_height, sig_status, sig_date, next_sig, fate, calc, send, lock>>

\* A variant of `sys account dispose` that disposes what the account has when
\* more is asked for.
process_account_dispose_clamped(key, amount, when, price, method, lot_numbers) ==
    LET disposal == IF when # NoDate THEN when ELSE today
        balance == IF Tracked(db, key) THEN get_account(db, key).last_update_balance
                   ELSE amount
        clamped == IF amount > balance THEN balance ELSE amount
    IN  record_disposal(db, key, clamped, disposal, price, method, lot_numbers)

\* A variant of `sys account dispose` that disposes the whole balance.
process_account_dispose_all(key, amount, when, price, method, lot_numbers) ==
    LET disposal == IF when # NoDate THEN when ELSE today
        balance == IF Tracked(db, key) THEN get_account(db, key).last_update_balance
                   ELSE amount
    IN  record_disposal(db, key, balance, disposal, price, method, lot_numbers)

\* A variant of `sys account dispose` that always selects first in, first out.
process_account_dispose_fifo(key, amount, when, price, method, lot_numbers) ==
    LET disposal == IF when # NoDate THEN when ELSE today
    IN  record_disposal(db, key, amount, disposal, price, "FirstInFirstOut", lot_numbers)

\* A variant of `sys account dispose` that does not pass the --lot numbers on.
process_account_dispose_unrestricted(key, amount, when, price, method, lot_numbers) ==
    LET disposal == IF when # NoDate THEN when ELSE today
    IN  record_disposal(db, key, amount, disposal, price, method, NoLotNumbers)

\* `sys account dispose`: what the command does to the store
process_account_dispose(key, amount, when, price, method, lot_numbers) ==
    LET disposal == IF when # NoDate THEN when ELSE today
    IN  record_disposal(db, key, amount, disposal, price, method, lot_numbers)

ProcessAccountDispose(key, amount, when, price, method, lot_numbers) ==
    /\ \E r \in {process_account_dispose(key, amount, when, price, method, lot_numbers)} :
          /\ Len(r.db.disposed_lots) <= MaxDisposed
          /\ db' = r.db
          /\ last' = r.err
    /\ UNCHANGED <<block_height, sig_status, sig_date, next_sig, fate, calc, send, lock>>

\* `sys account drop --confirm`: what the command does to the store
process_account_drop(key, amount, method, lot_numbers) ==
    record_drop(db, key, amount, method, lot_numbers)

ProcessAccountDrop(key, amount, method, lot_numbers) ==
    /\ \E r \in {process_account_drop(key, amount, method, lot_numbers)} :
          /\ Len(r.db.disposed_lots) <= MaxDisposed
          /\ db' = r.db
          /\ last' = r.err
    /\ UNCHANGED <<block_height, sig_status, sig_date, next_sig, fate, calc, send, lock>>

\* A variant of `sys account lot swap` that names the first lot twice.
process_account_lot_swap_same(lot_number1, lot_number2) ==
    swap_lots(db, lot_number1, lot_number1)

\* `sys account lot swap`: what the command does to the store
process_account_lot_swap(lot_number1, lot_number2) ==
    swap_lots(db, lot_number1, lot_number2)

ProcessAccountLotSwap(lot_number1, lot_number2) ==
    LET r == process_account_lot_swap(lot_number1, lot_number2)
    IN  /\ db' = r.db
        /\ last' = r.err
        /\ UNCHANGED <<block_height, sig_status, sig_date, next_sig, fate, calc, send, lock>>

\* ---- `sys account lot collect`
is_sol_or_wsol(token) == token \in {"SOL", "wSOL"}

\* The lots of the accounts of the token (SOL and wSOL count as one), in the
\* order the store lists the accounts, without the lots of the target account
RECURSIVE candidate_lots(_, _, _)
candidate_lots(d, key, keys) ==
    IF keys = <<>> THEN <<>>
    ELSE LET k == Head(keys)
             same == k[2] = key[2] \/ (is_sol_or_wsol(key[2]) /\ is_sol_or_wsol(k[2]))
         IN  (IF Tracked(d, k) /\ same /\ k # key THEN get_account(d, k).lots ELSE <<>>)
                 \o candidate_lots(d, key, Tail(keys))

\* The while loop: drop the lots of the target from the front until one comes
\* after the best candidate (Ordering::Greater)
RECURSIVE out_of_order_lots(_, _, _)
out_of_order_lots(method, current_lots, candidate) ==
    IF current_lots = <<>> THEN <<>>
    ELSE IF cmp_lots(method, candidate, Head(current_lots)) THEN current_lots
    ELSE out_of_order_lots(method, Tail(current_lots), candidate)

\* One iteration of the loop: Done, or one swap_lots
collect_iteration(d, key, method) ==
    LET sorted == SortLots(method, IF Tracked(d, key) THEN get_account(d, key).lots
                                   ELSE <<>>)
        candidates == SortLots(method, candidate_lots(d, key, KeyOrder))
        current_lots == IF candidates = <<>> THEN sorted
                        ELSE out_of_order_lots(method, sorted, Head(candidates))
        swapped == swap_lots(d, Head(current_lots).lot_number, Head(candidates).lot_number)
    IN  IF current_lots = <<>> \/ candidates = <<>>
        THEN [done |-> TRUE, err |-> "", db |-> d]
        ELSE [done |-> swapped.err # "", err |-> swapped.err, db |-> swapped.db]

\* The loop.  An iteration changes nothing but the store, so the loop never
\* ends once an iteration leaves a store it has already started from (`seen`).
RECURSIVE collect_loop(_, _, _, _)
collect_loop(d, key, method, seen) ==
    IF d \in seen THEN [err |-> "loop", db |-> d, swaps |-> Cardinality(seen)]
    ELSE LET r == collect_iteration(d, key, method)
         IN  IF r.done THEN [err |-> r.err, db |-> r.db, swaps |-> Cardinality(seen)]
             ELSE collect_loop(r.db, key, method, seen \cup {d})

\* `sys account lot collect`: what the command does to the store
process_account_lot_collect(address, token, method) ==
    collect_loop(db, <<address, token>>, method, {})

\* The command returns when its loop ends
ProcessAccountLotCollect(address, token, method) ==
    /\ \E r \in {process_account_lot_collect(address, token, method)} :
          /\ r.err # "loop"
          /\ db' = r.db
          /\ last' = r.err
    /\ UNCHANGED <<block_height, sig_status, sig_date, next_sig, fate, calc, send, lock>>

\* A variant of `sys account lot move` that starts tracking the destination.
process_account_lot_move_creating(lot_number, to_address) ==
    LET to == <<to_address, Holder(db, lot_number)[2]>>
        d1 == IF Holders(db, lot_number) = {} \/ Tracked(db, to) THEN db
              ELSE add_account(db, to, TrackedAccount(Epoch, 0, <<>>, FALSE)).db
    IN  move_lot(d1, lot_number, to_address)

\* `sys account lot move`: what the command does to the store
process_account_lot_move(lot_number, to_address) ==
    move_lot(db, lot_number, to_address)

ProcessAccountLotMove(lot_number, to_address) ==
    LET r == process_account_lot_move(lot_number, to_address)
    IN  /\ db' = r.db
        /\ last' = r.err
        /\ UNCHANGED <<block_height, sig_status, sig_date, next_sig, fate, calc, send, lock>>

\* The loop of `sys account lot delete` over the lot numbers, in the order the
\* set yields them; the first failure ends the command.
RECURSIVE DeleteLots(_, _)
DeleteLots(st, lot_numbers) ==
    IF lot_numbers = <<>> \/ st.err # "" THEN st
    ELSE DeleteLots(delete_lot(st.db, Head(lot_numbers)), Tail(lot_numbers))

\* A variant of `sys account lot delete` that drops the lots instead.
RECURSIVE DropLots(_, _)
DropLots(st, lot_numbers) ==
    IF lot_numbers = <<>> \/ st.err # "" THEN st
    ELSE LET lot_number == Head(lot_numbers)
             key == Holder(st.db, lot_number)
             lot == LotOf(get_account(st.db, key).lots, lot_number)
             dropped == record_drop(st.db, key, lot.amount, "FirstInFirstOut",
                                    SomeLotNumbers({lot_number}))
         IN  IF Holders(st.db, lot_number) = {} THEN [st EXCEPT !.err = "NotFound"]
             ELSE DropLots([err |-> dropped.err, db |-> dropped.db], Tail(lot_numbers))

process_account_lot_delete_dropping(lot_numbers, confirm) ==
    IF ~confirm THEN [err |-> "", db |-> db]
    ELSE DropLots([err |-> "", db |-> db], lot_numbers)

\* `sys account lot delete`: what the command does to the store
process_account_lot_delete(lot_numbers, confirm) ==
    IF ~confirm THEN [err |-> "", db |-> db]
    ELSE DeleteLots([err |-> "", db |-> db], lot_numbers)

ProcessAccountLotDelete(lot_numbers, confirm) ==
    LET r == process_account_lot_delete(lot_numbers, confirm)
    IN  /\ db' = r.db
        /\ last' = r.err
        /\ UNCHANGED <<block_height, sig_status, sig_date, next_sig, fate, calc, send, lock>>

\* A variant of `sys account remove` that does not look at the lots.
process_account_remove_unchecked(key, confirm, proceed_even_if_lots_exist) ==
    IF ~Tracked(db, key) THEN [err |-> "does not exist", db |-> db]
    ELSE IF confirm THEN remove_account(db, key)
    ELSE [err |-> "", db |-> db]

\* `sys account remove`: what the command does to the store
process_account_remove(key, confirm, proceed_even_if_lots_exist) ==
    IF ~Tracked(db, key) THEN [err |-> "does not exist", db |-> db]
    ELSE IF get_account(db, key).lots # <<>> /\ ~proceed_even_if_lots_exist
    THEN [err |-> "is not empty", db |-> db]
    ELSE IF confirm THEN remove_account(db, key)
    ELSE [err |-> "", db |-> db]

ProcessAccountRemove(key, confirm, proceed_even_if_lots_exist) ==
    LET r == process_account_remove(key, confirm, proceed_even_if_lots_exist)
    IN  /\ db' = r.db
        /\ last' = r.err
        /\ UNCHANGED <<block_height, sig_status, sig_date, next_sig, fate, calc, send, lock>>

\* Marks a terminal event of a signature's pending record.
Mark(f, signature, event) == [f EXCEPT ![signature] = @ \cup {event}]

\* The status a handler reads for a signature at the client's commitment level
\* (get_signature_status_with_commitment_and_history): None, Ok or Err.
StatusAtCommitment(signature) ==
    CASE sig_status[signature] = "ok" -> "Ok"
      [] sig_status[signature] = "err" -> "Err"
      [] OTHER -> "None"

\* get_signature_date: the day of the block the transaction landed in
get_signature_date(signature) == sig_date[signature]

\* send_transaction_until_expired and what the chain does meanwhile:
\*   "confirmed": the transaction lands and is confirmed; the call returns true
\*   "expired":   the block height passes last_valid_block_height with the
\*                transaction failed or never landed; the call returns false
\*   "killed":    the process is interrupted while it waits; nothing more is done
\* These are the runs in which the value returned agrees with the chain.  The
\* loop itself, and the run in which it returns false for a transaction that
\* landed after its last poll, are in the section send_transaction_until_expired.
SendOutcomes == {"confirmed", "expired", "killed"}

ChainAfterSend(signature, lvbh, outcome, failed) ==
    /\ outcome = "expired" => lvbh + 1 <= MaxHeight
    /\ block_height' = IF outcome = "expired" THEN lvbh + 1 ELSE block_height
    /\ sig_status' = [sig_status EXCEPT ![signature] =
                        CASE outcome = "confirmed" -> "ok"
                          [] outcome = "expired" /\ failed -> "err"
                          [] OTHER -> "none"]
    /\ sig_date' = IF outcome = "confirmed" \/ (outcome = "expired" /\ failed)
                   THEN [sig_date EXCEPT ![signature] = block_height]
                   ELSE sig_date
    /\ next_sig' = signature + 1
    /\ UNCHANGED <<calc, send, lock>>

\* A variant of `sys account wrap` that leaves the pending transfer in the store
\* when the send fails.
process_account_wrap_keeps(address, amount_arg, method, lot_numbers, outcome, date_ok) ==
    LET sol == <<address, "SOL">>
        wsol == <<address, "wSOL">>
        amount == IF amount_arg = NoAmount THEN get_account(db, sol).last_update_balance
                  ELSE amount_arg
        d1 == IF Tracked(db, wsol) THEN db
              ELSE add_account(db, wsol, TrackedAccount(Epoch, 0, <<>>, FALSE)).db
        signature == next_sig
        rec == record_transfer(d1, signature, block_height + ValidBlocks, amount,
                               sol, wsol, method, lot_numbers)
        cancelled == cancel_transfer(rec.db, signature)
        \* get_signature_date: the transaction landed in the current block
        confirmed == confirm_transfer(rec.db, signature, today)
    IN  IF rec.err # "" THEN [db |-> rec.db, err |-> rec.err, fate |-> fate]
        ELSE CASE outcome = "expired" ->
                 [db |-> rec.db,
                  err |-> IF cancelled.err = "" THEN "Wrap failed" ELSE cancelled.err,
                  fate |-> Mark(fate, signature, "cancelled")]
          [] outcome = "confirmed" /\ date_ok ->
                 [db |-> confirmed.db, err |-> confirmed.err,
                  fate |-> IF confirmed.err = "" THEN Mark(fate, signature, "confirmed")
                           ELSE fate]
          [] outcome = "confirmed" /\ ~date_ok ->
                 [db |-> rec.db, err |-> "Rpc", fate |-> fate]
          [] OTHER -> [db |-> rec.db, err |-> "", fate |-> fate]

\* A variant of `sys account wrap` that records the transfer without its amount.
process_account_wrap_whole(address, amount_arg, method, lot_numbers, outcome, date_ok) ==
    LET sol == <<address, "SOL">>
        wsol == <<address, "wSOL">>
        amount == IF amount_arg = NoAmount THEN get_account(db, sol).last_update_balance
                  ELSE amount_arg
        d1 == IF Tracked(db, wsol) THEN db
              ELSE add_account(db, wsol, TrackedAccount(Epoch, 0, <<>>, FALSE)).db
        signature == next_sig
        rec == record_transfer(d1, signature, block_height + ValidBlocks, NoAmount,
                               sol, wsol, method, lot_numbers)
        cancelled == cancel_transfer(rec.db, signature)
        \* get_signature_date: the transaction landed in the current block
        confirmed == confirm_transfer(rec.db, signature, today)
    IN  IF rec.err # "" THEN [db |-> rec.db, err |-> rec.err, fate |-> fate]
        ELSE CASE outcome = "expired" ->
                 [db |-> cancelled.db,
                  err |-> IF cancelled.err = "" THEN "Wrap failed" ELSE cancelled.err,
                  fate |-> Mark(fate, signature, "cancelled")]
          [] outcome = "confirmed" /\ date_ok ->
                 [db |-> confirmed.db, err |-> confirmed.err,
                  fate |-> IF confirmed.err = "" THEN Mark(fate, signature, "confirmed")
                           ELSE fate]
          [] outcome = "confirmed" /\ ~date_ok ->
                 [db |-> rec.db, err |-> "Rpc", fate |-> fate]
          [] OTHER -> [db |-> rec.db, err |-> "", fate |-> fate]

\* `sys account wrap`: what the command does to the store.  The amount is
\* `amount_arg`, or the whole balance (NoAmount); `outcome` is how the send ended
\* and `date_ok` whether get_signature_date answered.
process_account_wrap(address, amount_arg, method, lot_numbers, outcome, date_ok) ==
    LET sol == <<address, "SOL">>
        wsol == <<address, "wSOL">>
        amount == IF amount_arg = NoAmount THEN get_account(db, sol).last_update_balance
                  ELSE amount_arg
        d1 == IF Tracked(db, wsol) THEN db
              ELSE add_account(db, wsol, TrackedAccount(Epoch, 0, <<>>, FALSE)).db
        signature == next_sig
        rec == record_transfer(d1, signature, block_height + ValidBlocks, amount,
                               sol, wsol, method, lot_numbers)
        cancelled == cancel_transfer(rec.db, signature)
        \* get_signature_date: the transaction landed in the current block
        confirmed == confirm_transfer(rec.db, signature, today)
    IN  IF rec.err # "" THEN [db |-> rec.db, err |-> rec.err, fate |-> fate]
        ELSE CASE outcome = "expired" ->
                 [db |-> cancelled.db,
                  err |-> IF cancelled.err = "" THEN "Wrap failed" ELSE cancelled.err,
                  fate |-> Mark(fate, signature, "cancelled")]
          [] outcome = "confirmed" /\ date_ok ->
                 [db |-> confirmed.db, err |-> confirmed.err,
                  fate |-> IF confirmed.err = "" THEN Mark(fate, signature, "confirmed")
                           ELSE fate]
          [] outcome = "confirmed" /\ ~date_ok ->
                 [db |-> rec.db, err |-> "Rpc", fate |-> fate]
          [] OTHER -> [db |-> rec.db, err |-> "", fate |-> fate]

ProcessAccountWrap(address, amount_arg, method, lot_numbers, outcome, failed, date_ok) ==
    LET r == process_account_wrap(address, amount_arg, method, lot_numbers, outcome,
                                  date_ok)
    IN  /\ Tracked(db, <<address, "SOL">>)
        /\ amount_arg = NoAmount => get_account(db, <<address, "SOL">>).last_update_balance # 0
        /\ next_sig <= MaxSigs
        /\ ChainAfterSend(next_sig, block_height + ValidBlocks, outcome, failed)
        /\ db' = r.db
        /\ fate' = r.fate
        /\ last' = r.err

\* `sys account merge --signature`: records a transfer of everything in
\* from_address to into_address for a transaction made elsewhere; `status` is
\* what the chain knows of that transaction.
ProcessAccountMergeExisting(from_address, into_address, status) ==
    LET from == <<from_address, "SOL">>
        into == <<into_address, "SOL">>
        signature == next_sig
        rec == record_transfer(db, signature, 0, NoAmount, from, into,
                               "FirstInFirstOut", NoLotNumbers)
    IN  /\ next_sig <= MaxSigs
        /\ from_address # into_address
        /\ db' = rec.db
        /\ sig_status' = [sig_status EXCEPT ![signature] = status]
        /\ sig_date' = [sig_date EXCEPT ![signature] =
                            IF status = "none" THEN NoDate ELSE 0]
        /\ next_sig' = signature + 1
        /\ last' = rec.err
        /\ UNCHANGED <<block_height, fate, calc, send, lock>>

\* A variant of the pass over the pending transfers that cancels a transfer at
\* its last valid block height.
RECURSIVE SyncPendingTransfersEarly(_, _, _, _)
SyncPendingTransfersEarly(st, records, position, fail_at) ==
    IF records = <<>> \/ st.err # "" THEN st
    ELSE LET t == Head(records)
             status == StatusAtCommitment(t.signature)
             confirmed == confirm_transfer(st.db, t.signature,
                                          get_signature_date(t.signature))
             cancelled == cancel_transfer(st.db, t.signature)
             step ==
                 IF position = fail_at THEN [st EXCEPT !.err = "Rpc"]
                 ELSE IF status = "Ok"
                 THEN [db |-> confirmed.db, err |-> confirmed.err,
                       fate |-> IF confirmed.err = ""
                                THEN Mark(st.fate, t.signature, "confirmed") ELSE st.fate]
                 ELSE IF status = "Err" \/ block_height >= t.last_valid_block_height
                 THEN [db |-> cancelled.db, err |-> cancelled.err,
                       fate |-> IF cancelled.err = ""
                                THEN Mark(st.fate, t.signature, "cancelled") ELSE st.fate]
                 ELSE st
         IN  SyncPendingTransfersEarly(step, Tail(records), position + 1, fail_at)

\* process_account_sync_pending_transfers: one pass over the pending transfers.
\* `fail_at` is the position of the record at which an RPC query fails (0: none).
RECURSIVE SyncPendingTransfers(_, _, _, _)
SyncPendingTransfers(st, records, position, fail_at) ==
    IF records = <<>> \/ st.err # "" THEN st
    ELSE LET t == Head(records)
             status == StatusAtCommitment(t.signature)
             confirmed == confirm_transfer(st.db, t.signature,
                                          get_signature_date(t.signature))
             cancelled == cancel_transfer(st.db, t.signature)
             step ==
                 IF position = fail_at THEN [st EXCEPT !.err = "Rpc"]
                 ELSE IF status = "Ok"
                 THEN [db |-> confirmed.db, err |-> confirmed.err,
                       fate |-> IF confirmed.err = ""
                                THEN Mark(st.fate, t.signature, "confirmed") ELSE st.fate]
                 ELSE IF status = "Err" \/ block_height > t.last_valid_block_height
                 THEN [db |-> cancelled.db, err |-> cancelled.err,
                       fate |-> IF cancelled.err = ""
                                THEN Mark(st.fate, t.signature, "cancelled") ELSE st.fate]
                 ELSE st
         IN  SyncPendingTransfers(step, Tail(records), position + 1, fail_at)

\* A variant of the pass over the pending transfers that confirms a transfer
\* whenever the chain has a status for its signature.
RECURSIVE SyncPendingTransfersTrusting(_, _, _, _)
SyncPendingTransfersTrusting(st, records, position, fail_at) ==
    IF records = <<>> \/ st.err # "" THEN st
    ELSE LET t == Head(records)
             status == StatusAtCommitment(t.signature)
             confirmed == confirm_transfer(st.db, t.signature,
                                          get_signature_date(t.signature))
             cancelled == cancel_transfer(st.db, t.signature)
             step ==
                 IF position = fail_at THEN [st EXCEPT !.err = "Rpc"]
                 ELSE IF status # "None"
                 THEN [db |-> confirmed.db, err |-> confirmed.err,
                       fate |-> IF confirmed.err = ""
                                THEN Mark(st.fate, t.signature, "confirmed") ELSE st.fate]
                 ELSE IF block_height > t.last_valid_block_height
                 THEN [db |-> cancelled.db, err |-> cancelled.err,
                       fate |-> IF cancelled.err = ""
                                THEN Mark(st.fate, t.signature, "cancelled") ELSE st.fate]
                 ELSE st
         IN  SyncPendingTransfersTrusting(step, Tail(records), position + 1, fail_at)

process_account_sync_pending_transfers_trusting(fail_at) ==
    SyncPendingTransfersTrusting([db |-> db, err |-> "", fate |-> fate],
                                 db.pending_transfers, 1, fail_at)

process_account_sync_pending_transfers(fail_at) ==
    SyncPendingTransfers([db |-> db, err |-> "", fate |-> fate], db.pending_transfers,
                         1, fail_at)

ProcessAccountSyncPendingTransfers(fail_at) ==
    /\ db.pending_transfers # <<>>
    /\ \E st \in {process_account_sync_pending_transfers(fail_at)} :
          /\ db' = st.db
          /\ fate' = st.fate
          /\ last' = st.err
    /\ UNCHANGED <<block_height, sig_status, sig_date, next_sig, calc, send, lock>>

\* A variant of `sys jup swap` that, when the send fails, also removes the
\* account of the token swapped to.
process_jup_swap_cleanup(address, from_token, from_token_price, to_token, to_token_price, method, existing, outcome) ==
    LET to == <<address, to_token>>
        signature == next_sig
        d1 == IF Tracked(db, to) THEN db
              ELSE add_account(db, to, TrackedAccount(Epoch, 0, <<>>, FALSE)).db
        rec_existing == record_swap(db, signature, 0, address, from_token,
                                    from_token_price, to_token, to_token_price, method)
        rec == record_swap(d1, signature, block_height + ValidBlocks, address,
                           from_token, from_token_price, to_token, to_token_price, method)
        cancelled == cancel_swap(rec.db, signature)
    IN  IF existing THEN [db |-> rec_existing.db, err |-> rec_existing.err, fate |-> fate]
        ELSE IF outcome = "expired"
        THEN [db |-> [cancelled.db EXCEPT !.accounts =
                         [key \in DOMAIN @ \ {to} |-> @[key]]],
              err |-> IF cancelled.err = "" THEN "Swap failed" ELSE cancelled.err,
              fate |-> Mark(fate, signature, "cancelled")]
        ELSE [db |-> rec.db, err |-> rec.err, fate |-> fate]

\* `sys jup swap`: what the command does to the store.  With --signature
\* (`existing`) the swap of a transaction made elsewhere is recorded; otherwise a
\* swap transaction is built, recorded and sent, and `outcome` is how the send ended.
process_jup_swap(address, from_token, from_token_price, to_token, to_token_price, method, existing, outcome) ==
    LET to == <<address, to_token>>
        signature == next_sig
        d1 == IF Tracked(db, to) THEN db
              ELSE add_account(db, to, TrackedAccount(Epoch, 0, <<>>, FALSE)).db
        rec_existing == record_swap(db, signature, 0, address, from_token,
                                    from_token_price, to_token, to_token_price, method)
        rec == record_swap(d1, signature, block_height + ValidBlocks, address,
                           from_token, from_token_price, to_token, to_token_price, method)
        cancelled == cancel_swap(rec.db, signature)
    IN  IF existing THEN [db |-> rec_existing.db, err |-> rec_existing.err, fate |-> fate]
        ELSE IF outcome = "expired"
        THEN [db |-> cancelled.db,
              err |-> IF cancelled.err = "" THEN "Swap failed" ELSE cancelled.err,
              fate |-> Mark(fate, signature, "cancelled")]
        ELSE [db |-> rec.db, err |-> rec.err, fate |-> fate]

ProcessJupSwap(address, from_token, from_token_price, to_token, to_token_price, amount_arg, method, existing, status, outcome, failed) ==
    LET from == <<address, from_token>>
        from_account == get_account(db, from)
        signature == next_sig
        amount == IF amount_arg = NoAmount THEN from_account.last_update_balance
                  ELSE amount_arg
        r == process_jup_swap(address, from_token, from_token_price, to_token,
                              to_token_price, method, existing, outcome)
    IN  /\ Tracked(db, from)
        /\ next_sig <= MaxSigs
        /\ IF existing
           THEN /\ sig_status' = [sig_status EXCEPT ![signature] = status]
                /\ sig_date' = [sig_date EXCEPT ![signature] =
                                    IF status = "none" THEN NoDate ELSE 0]
                /\ next_sig' = signature + 1
                /\ UNCHANGED <<block_height, calc, send, lock>>
           ELSE /\ amount # 0
                /\ from_account.last_update_balance >= amount
                /\ ChainAfterSend(signature, block_height + ValidBlocks, outcome, failed)
        /\ db' = r.db
        /\ fate' = r.fate
        /\ last' = r.err

\* process_sync_swaps: one pass over the pending swaps.  from_amount and
\* to_amount are the balance changes the confirmed transaction shows.
RECURSIVE SyncSwaps(_, _, _, _, _, _)
SyncSwaps(st, records, position, fail_at, from_amount, to_amount) ==
    IF records = <<>> \/ st.err # "" THEN st
    ELSE LET s == Head(records)
             status == StatusAtCommitment(s.signature)
             confirmed == confirm_swap(st.db, s.signature, get_signature_date(s.signature),
                                      from_amount, to_amount)
             cancelled == cancel_swap(st.db, s.signature)
             step ==
                 IF position = fail_at THEN [st EXCEPT !.err = "Rpc"]
                 ELSE IF status = "Ok"
                 THEN [db |-> confirmed.db, err |-> confirmed.err,
                       fate |-> IF confirmed.err = ""
                                THEN Mark(st.fate, s.signature, "confirmed") ELSE st.fate]
                 ELSE IF status = "Err" \/ block_height > s.last_valid_block_height
                 THEN [db |-> cancelled.db, err |-> cancelled.err,
                       fate |-> IF cancelled.err = ""
                                THEN Mark(st.fate, s.signature, "cancelled") ELSE st.fate]
                 ELSE st
         IN  SyncSwaps(step, Tail(records), position + 1, fail_at, from_amount, to_amount)

\* A variant of the pass over the pending swaps that takes the two balance
\* changes of the transaction the other way round.
process_sync_swaps_exchanged(fail_at, from_amount, to_amount) ==
    SyncSwaps([db |-> db, err |-> "", fate |-> fate], db.pending_swaps, 1, fail_at,
              to_amount, from_amount)

process_sync_swaps(fail_at, from_amount, to_amount) ==
    SyncSwaps([db |-> db, err |-> "", fate |-> fate], db.pending_swaps, 1, fail_at,
              from_amount, to_amount)

ProcessSyncSwaps(fail_at, from_amount, to_amount) ==
    /\ db.pending_swaps # <<>>
    /\ \E st \in {process_sync_swaps(fail_at, from_amount, to_amount)} :
          /\ st.db.lot_number <= MaxLots + 1
          /\ Len(st.db.disposed_lots) <= MaxDisposed
          /\ db' = st.db
          /\ fate' = st.fate
          /\ last' = st.err
    /\ UNCHANGED <<block_height, sig_status, sig_date, next_sig, calc, send, lock>>

\* add_exchange_deposit_address_to_db
add_exchange_deposit_address_to_db(d, deposit) ==
    IF Tracked(d, deposit) THEN d
    ELSE add_account(d, deposit, TrackedAccount(Epoch, 0, <<>>, TRUE)).db

\* `sys <exchange> deposit`: main adds the deposit address, then
\* process_exchange_deposit records the deposit and sends the transaction.
ProcessExchangeDeposit(from_address, deposit_address, token, amount_arg, method, lot_numbers, outcome, failed) ==
    LET from == <<from_address, token>>
        deposit == <<deposit_address, token>>
        d1 == add_exchange_deposit_address_to_db(db, deposit)
        from_account_balance == get_account(d1, from).last_update_balance
        amount == IF amount_arg = NoAmount THEN from_account_balance ELSE amount_arg
        last_valid_block_height == block_height + ValidBlocks
        signature == next_sig
        rec == record_deposit(d1, signature, last_valid_block_height, from, amount,
                              "exchange", deposit, method, lot_numbers)
    IN  /\ from_address # deposit_address
        /\ Tracked(d1, from)
        /\ amount # 0
        /\ from_account_balance >= amount
        /\ next_sig <= MaxSigs
        /\ ChainAfterSend(signature, last_valid_block_height, outcome, failed)
        /\ db' = rec.db
        /\ fate' = fate
        /\ last' = IF rec.err = "" /\ outcome = "expired" THEN "Deposit failed"
                   ELSE rec.err

\* A variant of `sys <exchange> withdraw` that disposes the lots at the request.
process_exchange_withdraw_disposing(token, deposit_address, amount_arg, to_address, method, lot_numbers, requested, tag, fee) ==
    LET deposit == <<deposit_address, token>>
        to == <<to_address, token>>
        amount == IF amount_arg = NoAmount
                  THEN get_account(db, deposit).last_update_balance ELSE amount_arg
        rec == record_withdrawal(db, tag, token, amount, fee, deposit, to, method,
                                 lot_numbers)
    IN  IF ~Tracked(db, deposit) \/ ~Tracked(db, to) THEN [err |-> "panic", db |-> db]
        ELSE IF ~requested THEN [err |-> "Exchange", db |-> db]
        ELSE IF rec.err # "" THEN rec
        ELSE [err |-> "",
              db |-> [Dispose(rec.db, deposit, amount, today, 0, "Withdrawal", method,
                              lot_numbers).db
                      EXCEPT !.pending_withdrawals = rec.db.pending_withdrawals]]

\* process_exchange_withdraw: what `sys <exchange> withdraw` does to the store.
\* `requested` is whether the exchange accepted the request; `tag` and `fee` are
\* what it answered.
process_exchange_withdraw(token, deposit_address, amount_arg, to_address, method, lot_numbers, requested, tag, fee) ==
    LET deposit == <<deposit_address, token>>
        to == <<to_address, token>>
        amount == IF amount_arg = NoAmount
                  THEN get_account(db, deposit).last_update_balance ELSE amount_arg
    IN  IF ~Tracked(db, deposit) \/ ~Tracked(db, to) THEN [err |-> "panic", db |-> db]
        ELSE IF ~requested THEN [err |-> "Exchange", db |-> db]
        ELSE record_withdrawal(db, tag, token, amount, fee, deposit, to, method,
                               lot_numbers)

ProcessExchangeWithdraw(token, deposit_address, amount_arg, to_address, method, lot_numbers, requested, tag, fee) ==
    LET r == process_exchange_withdraw(token, deposit_address, amount_arg, to_address,
                                       method, lot_numbers, requested, tag, fee)
    IN  /\ tag \notin TagsOf(db.pending_withdrawals)
        /\ fate[tag] = {}
        /\ Len(r.db.disposed_lots) <= MaxDisposed
        /\ db' = r.db
        /\ last' = r.err
        /\ UNCHANGED <<block_height, sig_status, sig_date, next_sig, fate, calc, send, lock>>

\* process_sync_exchange, the pass over the pending withdrawals.
\* `withdrawal_view` is what the exchange reports of each tag: "unknown" (not
\* among the recent withdrawals), "pending", "completed" (with a transaction
\* id) or "cancelled" (completed without one).
RECURSIVE SyncWithdrawals(_, _, _)
SyncWithdrawals(st, records, withdrawal_view) ==
    IF records = <<>> \/ st.err # "" THEN st
    ELSE LET p == Head(records)
             wi == withdrawal_view[p.tag]
             done == confirm_withdrawal(st.db, p.tag, today)
             cancelled == cancel_withdrawal(st.db, p.tag)
             step ==
                 IF wi = "unknown" THEN [st EXCEPT !.err = "panic"]
                 ELSE IF wi = "completed"
                 THEN [db |-> done.db, err |-> done.err,
                       fate |-> IF done.err = "" THEN Mark(st.fate, p.tag, "confirmed")
                                ELSE st.fate]
                 ELSE IF wi = "cancelled"
                 THEN [db |-> cancelled.db, err |-> cancelled.err,
                       fate |-> IF cancelled.err = "" THEN Mark(st.fate, p.tag, "cancelled")
                                ELSE st.fate]
                 ELSE st
         IN  SyncWithdrawals(step, Tail(records), withdrawal_view)

\* Token::fiat_fungible: the stablecoins; SOL and wSOL are not
fiat_fungible(token) == token = "USDC"

\* The amount difference from which a deposit is held back as a mismatch
MissingLimit == 10

\* The amount the exchange lists for the deposit `p` under `exchange_view`:
\* the pending amount ("match"), one unit less ("stolen"), MissingLimit - 1
\* units more ("near") or MissingLimit units more ("mismatch")
deposit_info_amount(exchange_view, p) ==
    CASE exchange_view = "match" -> p.amount
      [] exchange_view = "stolen" -> p.amount - 1
      [] exchange_view = "near" -> p.amount + (MissingLimit - 1)
      [] exchange_view = "mismatch" -> p.amount + MissingLimit
      [] OTHER -> NoAmount

\* (token.amount(deposit_info.amount) as i64 - pending_deposit.amount as i64).abs()
missing_tokens(exchange_view, p) ==
    LET difference == deposit_info_amount(exchange_view, p) - p.amount
    IN  IF difference < 0 THEN 0 - difference ELSE difference

\* A variant of the comparison with the exchange's list that takes any listed
\* deposit of the signature, whatever its amount.
deposit_matches_listed(exchange_view, p) ==
    exchange_view \notin {"None", "absent"}

\* The exchange lists a deposit of the signature, and its amount is less than
\* MissingLimit units from the pending amount
deposit_matches(exchange_view, p) ==
    /\ exchange_view \notin {"None", "absent"}
    /\ ~(missing_tokens(exchange_view, p) >= MissingLimit)

\* A variant of the branch for an exchange without a deposit history that
\* drops the deposit of any token.
blind_deposit_any(st, p) ==
    LET dropped == drop_deposit(st.db, p.signature)
    IN  [db |-> dropped.db, err |-> dropped.err,
         fate |-> IF dropped.err = "" THEN Mark(st.fate, p.signature, "dropped")
                  ELSE st.fate]

\* The exchange has no deposit history (recent_deposits is None): the deposit
\* of a fiat-fungible token is dropped, any other makes the pass panic.
blind_deposit(st, p) ==
    LET token == p.to[2]
        dropped == drop_deposit(st.db, p.signature)
    IN  IF fiat_fungible(token)
        THEN [db |-> dropped.db, err |-> dropped.err,
              fate |-> IF dropped.err = "" THEN Mark(st.fate, p.signature, "dropped")
                       ELSE st.fate]
        ELSE [st EXCEPT !.err = "panic"]

\* A variant of the pass over the pending deposits that dates a confirmed
\* deposit at the day of the pass.
RECURSIVE SyncDepositsToday(_, _, _, _, _, _)
SyncDepositsToday(st, records, position, fail_at, exchange_view, price) ==
    IF records = <<>> \/ st.err # "" THEN st
    ELSE LET p == Head(records)
             status == sig_status[p.signature]
             confirmed == status \in {"ok", "err"}
             ok == status \in {"ok", "processed"}
             done == confirm_deposit(st.db, p.signature, today,
                                     price)
             cancelled == cancel_deposit(st.db, p.signature)
             step ==
                 IF position = fail_at THEN [st EXCEPT !.err = "Rpc"]
                 ELSE IF confirmed /\ ok
                 THEN IF exchange_view = "None"
                      THEN [st EXCEPT !.err = "panic"]
                      ELSE IF exchange_view = "match"
                      THEN [db |-> done.db, err |-> done.err,
                            fate |-> IF done.err = ""
                                     THEN Mark(st.fate, p.signature, "confirmed")
                                     ELSE st.fate]
                      ELSE st
                 ELSE IF ~ok \/ block_height > p.last_valid_block_height
                 THEN [db |-> cancelled.db,
                       err |-> IF cancelled.err = "" THEN "" ELSE "panic",
                       fate |-> IF cancelled.err = ""
                                THEN Mark(st.fate, p.signature, "cancelled") ELSE st.fate]
                 ELSE st
         IN  SyncDepositsToday(step, Tail(records), position + 1, fail_at, exchange_view, price)

\* process_sync_exchange, the pass over the pending deposits.  `exchange_view`
\* is what the exchange reports of a confirmed deposit: "None" (no deposit
\* history), "absent" (not in the list), or a listed amount ("match", "stolen",
\* "near", "mismatch": see deposit_info_amount).
RECURSIVE SyncDeposits(_, _, _, _, _, _)
SyncDeposits(st, records, position, fail_at, exchange_view, price) ==
    IF records = <<>> \/ st.err # "" THEN st
    ELSE LET p == Head(records)
             status == sig_status[p.signature]
             confirmed == status \in {"ok", "err"}
             ok == status \in {"ok", "processed"}
             done == confirm_deposit(st.db, p.signature, get_signature_date(p.signature),
                                     price)
             cancelled == cancel_deposit(st.db, p.signature)
             step ==
                 IF position = fail_at THEN [st EXCEPT !.err = "Rpc"]
                 ELSE IF confirmed /\ ok
                 THEN IF exchange_view = "None"
                      THEN blind_deposit(st, p)
                      ELSE IF deposit_matches(exchange_view, p)
                      THEN [db |-> done.db, err |-> done.err,
                            fate |-> IF done.err = ""
                                     THEN Mark(st.fate, p.signature, "confirmed")
                                     ELSE st.fate]
                      ELSE st
                 ELSE IF ~ok \/ block_height > p.last_valid_block_height
                 THEN [db |-> cancelled.db,
                       err |-> IF cancelled.err = "" THEN "" ELSE "panic",
                       fate |-> IF cancelled.err = ""
                                THEN Mark(st.fate, p.signature, "cancelled") ELSE st.fate]
                 ELSE st
         IN  SyncDeposits(step, Tail(records), position + 1, fail_at, exchange_view, price)

\* process_sync_exchange: the pending withdrawals, then the pending deposits
process_sync_exchange(withdrawal_view, fail_at, exchange_view, price) ==
    SyncDeposits(SyncWithdrawals([db |-> db, err |-> "", fate |-> fate],
                                 db.pending_withdrawals, withdrawal_view),
                 db.pending_deposits, 1, fail_at, exchange_view, price)

ProcessSyncExchange(withdrawal_view, fail_at, exchange_view, price) ==
    /\ db.pending_deposits # <<>> \/ db.pending_withdrawals # <<>>
    /\ \E st \in {process_sync_exchange(withdrawal_view, fail_at, exchange_view, price)} :
          /\ Len(st.db.disposed_lots) <= MaxDisposed
          /\ st.db.lot_number <= MaxLots + 1
          /\ db' = st.db
          /\ fate' = st.fate
          /\ last' = st.err
    /\ UNCHANGED <<block_height, sig_status, sig_date, next_sig, calc, send, lock>>

\* A variant of `sys account merge --signature` that records the transfer
\* without looking at the pending set.
process_account_merge_existing_again(from_address, into_address, existing_signature) ==
    [err |-> "",
     db |-> [db EXCEPT !.pending_transfers = Append(@,
                PendingTransfer(existing_signature, 0, NoAmount, <<from_address, "SOL">>,
                                <<into_address, "SOL">>, "FirstInFirstOut",
                                NoLotNumbers))]]

\* `sys account merge --signature <existing_signature>`: the transfer of a
\* transaction made elsewhere is recorded as pending
process_account_merge_existing(from_address, into_address, existing_signature) ==
    record_transfer(db, existing_signature, 0, NoAmount, <<from_address, "SOL">>,
                    <<into_address, "SOL">>, "FirstInFirstOut", NoLotNumbers)

\* `sys jup swap --signature <existing_signature>`: the from-account must be
\* tracked; the swap of a transaction made elsewhere is recorded as pending
process_jup_swap_existing(address, from_token, from_token_price, to_token, to_token_price, method, existing_signature) ==
    IF ~Tracked(db, <<address, from_token>>) THEN [err |-> "NoAccount", db |-> db]
    ELSE record_swap(db, existing_signature, 0, address, from_token, from_token_price,
                     to_token, to_token_price, method)

\* A command that names a signature: the store call's result is applied, a
\* refusal is kept in the history, a new record starts a new history, and the
\* chain has the transaction in the state `status` when the signature is named
\* for the first time.
NameSignature(r, existing_signature, status) ==
    /\ db' = r.db
    /\ last' = r.err
    /\ fate' = IF r.err = "InvariantViolation"
               THEN Mark(fate, existing_signature, "refused")
               ELSE IF r.err = "" THEN [fate EXCEPT ![existing_signature] = {}]
               ELSE fate
    /\ IF fate[existing_signature] = {} /\ existing_signature \notin PendingSignatures(db)
       THEN /\ sig_status' = [sig_status EXCEPT ![existing_signature] = status]
            /\ sig_date' = [sig_date EXCEPT ![existing_signature] =
                                IF status = "none" THEN NoDate ELSE 0]
       ELSE UNCHANGED <<sig_status, sig_date>>
    /\ UNCHANGED <<block_height, next_sig, calc, send, lock>>

ProcessAccountMergeSignature(from_address, into_address, existing_signature, status) ==
    /\ from_address # into_address
    /\ \E r \in {process_account_merge_existing(from_address, into_address, existing_signature)} :
          NameSignature(r, existing_signature, status)

ProcessJupSwapSignature(address, from_token, to_token, existing_signature, status) ==
    /\ from_token # to_token
    /\ \E r \in {process_jup_swap_existing(address, from_token, 1, to_token, 1, "FirstInFirstOut", existing_signature)} :
          NameSignature(r, existing_signature, status)

\* ------------------------------------------------ split and redelegate
\* get_minimum_balance_for_rent_exemption(StakeStateV2::size_of())
minimum_stake_account_balance == 1

\* A variant of `sys account split` that leaves the account it added when the
\* send fails.
process_account_split_keeps(from_address, into_address, amount_arg, method, lot_numbers, outcome, date_ok) ==
    LET from == <<from_address, "SOL">>
        into == <<into_address, "SOL">>
        from_account == get_account(db, from)
        amount == IF amount_arg = NoAmount THEN from_account.last_update_balance
                  ELSE amount_arg
        signature == next_sig
        added == add_account(db, into,
                     TrackedAccount(IF Epoch = 0 THEN 0 ELSE Epoch - 1, 0, <<>>,
                                    from_account.no_sync))
        rec == record_transfer(added.db, signature, block_height + ValidBlocks, amount,
                               from, into, method, lot_numbers)
        cancelled == cancel_transfer(rec.db, signature)
    IN  IF Tracked(db, into) THEN [db |-> db, err |-> "already exists", fate |-> fate]
        ELSE IF ~Tracked(db, from) THEN [db |-> db, err |-> "NoAccount", fate |-> fate]
        ELSE IF rec.err # "" THEN [db |-> rec.db, err |-> rec.err, fate |-> fate]
        ELSE [db |-> cancelled.db, err |-> "Split failed",
              fate |-> Mark(fate, signature, "cancelled")]

\* A variant of `sys account split` that, with no amount given, leaves the
\* minimum stake account balance in the source, as the redelegation does.
process_account_split_reserving(from_address, into_address, amount_arg, method, lot_numbers, outcome, date_ok) ==
    LET from == <<from_address, "SOL">>
        into == <<into_address, "SOL">>
        from_account == get_account(db, from)
        split_all == amount_arg = NoAmount
        amount == IF split_all
                  THEN from_account.last_update_balance - minimum_stake_account_balance
                  ELSE amount_arg
        signature == next_sig
        added == add_account(db, into,
                     TrackedAccount(IF Epoch = 0 THEN 0 ELSE Epoch - 1, 0, <<>>,
                                    from_account.no_sync))
        rec == record_transfer(added.db, signature, block_height + ValidBlocks, amount,
                               from, into, method, lot_numbers)
        confirmed == confirm_transfer(rec.db, signature, today)
        removed_from == remove_account(confirmed.db, from)
    IN  IF Tracked(db, into) THEN [db |-> db, err |-> "already exists", fate |-> fate]
        ELSE IF ~Tracked(db, from) THEN [db |-> db, err |-> "NoAccount", fate |-> fate]
        ELSE IF rec.err # "" THEN [db |-> rec.db, err |-> rec.err, fate |-> fate]
        ELSE IF outcome # "confirmed" \/ ~date_ok
        THEN [db |-> rec.db, err |-> "", fate |-> fate]
        ELSE IF confirmed.err # ""
        THEN [db |-> rec.db, err |-> confirmed.err, fate |-> fate]
        ELSE IF ~split_all
        THEN [db |-> confirmed.db, err |-> "", fate |-> Mark(fate, signature, "confirmed")]
        ELSE IF get_account(confirmed.db, from).lots # <<>>
        THEN [db |-> confirmed.db, err |-> "panic",
              fate |-> Mark(fate, signature, "confirmed")]
        ELSE [db |-> removed_from.db, err |-> removed_from.err,
              fate |-> Mark(fate, signature, "confirmed")]

\* `sys account split`: what the command does to the store.  The amount is
\* `amount_arg`, or the whole balance (NoAmount, split_all); `outcome` is how the
\* send ended and `date_ok` whether get_signature_date answered.
process_account_split(from_address, into_address, amount_arg, method, lot_numbers, outcome, date_ok) ==
    LET from == <<from_address, "SOL">>
        into == <<into_address, "SOL">>
        from_account == get_account(db, from)
        split_all == amount_arg = NoAmount
        amount == IF split_all THEN from_account.last_update_balance ELSE amount_arg
        signature == next_sig
        added == add_account(db, into,
                     TrackedAccount(IF Epoch = 0 THEN 0 ELSE Epoch - 1, 0, <<>>,
                                    from_account.no_sync))
        rec == record_transfer(added.db, signature, block_height + ValidBlocks, amount,
                               from, into, method, lot_numbers)
        cancelled == cancel_transfer(rec.db, signature)
        removed_into == remove_account(cancelled.db, into)
        \* get_signature_date: the transaction landed in the current block
        confirmed == confirm_transfer(rec.db, signature, today)
        removed_from == remove_account(confirmed.db, from)
    IN  IF Tracked(db, into) THEN [db |-> db, err |-> "already exists", fate |-> fate]
        ELSE IF ~Tracked(db, from) THEN [db |-> db, err |-> "NoAccount", fate |-> fate]
        ELSE IF rec.err # "" THEN [db |-> rec.db, err |-> rec.err, fate |-> fate]
        ELSE IF outcome = "expired"
        THEN IF cancelled.err # ""
             THEN [db |-> rec.db, err |-> cancelled.err, fate |-> fate]
             ELSE [db |-> removed_into.db,
                   err |-> IF removed_into.err = "" THEN "Split failed"
                           ELSE removed_into.err,
                   fate |-> Mark(fate, signature, "cancelled")]
        ELSE IF outcome = "killed" THEN [db |-> rec.db, err |-> "", fate |-> fate]
        ELSE IF ~date_ok THEN [db |-> rec.db, err |-> "Rpc", fate |-> fate]
        ELSE IF confirmed.err # ""
        THEN [db |-> rec.db, err |-> confirmed.err, fate |-> fate]
        ELSE IF ~split_all
        THEN [db |-> confirmed.db, err |-> "", fate |-> Mark(fate, signature, "confirmed")]
        ELSE IF get_account(confirmed.db, from).lots # <<>>
        THEN [db |-> confirmed.db, err |-> "panic",
              fate |-> Mark(fate, signature, "confirmed")]
        ELSE [db |-> removed_from.db, err |-> removed_from.err,
              fate |-> Mark(fate, signature, "confirmed")]

ProcessAccountSplit(from_address, into_address, amount_arg, method, lot_numbers, outcome, failed, date_ok) ==
    /\ from_address # into_address
    /\ next_sig <= MaxSigs
    /\ amount_arg # 0
    /\ \E r \in {process_account_split(from_address, into_address, amount_arg, method,
                                       lot_numbers, outcome, date_ok)} :
          /\ IF r.err \in {"already exists", "NoAccount"}
             THEN UNCHANGED <<block_height, sig_status, sig_date, next_sig, calc, send, lock>>
             ELSE ChainAfterSend(next_sig, block_height + ValidBlocks, outcome, failed)
          /\ db' = r.db
          /\ fate' = r.fate
          /\ last' = r.err

\* `sys account redelegate`: the source keeps the minimum stake account balance
process_account_redelegate(from_address, into_address, method, outcome, date_ok) ==
    LET from == <<from_address, "SOL">>
        into == <<into_address, "SOL">>
        from_account == get_account(db, from)
        redelegated_amount == from_account.last_update_balance
                                  - minimum_stake_account_balance
        signature == next_sig
        added == add_account(db, into,
                     TrackedAccount(IF Epoch = 0 THEN 0 ELSE Epoch - 1, 0, <<>>, FALSE))
        rec == record_transfer(added.db, signature, block_height + ValidBlocks,
                               redelegated_amount, from, into, method, NoLotNumbers)
        cancelled == cancel_transfer(rec.db, signature)
        removed_into == remove_account(cancelled.db, into)
        confirmed == confirm_transfer(rec.db, signature, today)
    IN  IF Tracked(db, into) THEN [db |-> db, err |-> "already exists", fate |-> fate]
        ELSE IF ~Tracked(db, from) THEN [db |-> db, err |-> "NoAccount", fate |-> fate]
        ELSE IF from_account.last_update_balance < minimum_stake_account_balance * 2
        THEN [db |-> db, err |-> "insufficient balance", fate |-> fate]
        ELSE IF rec.err # "" THEN [db |-> rec.db, err |-> rec.err, fate |-> fate]
        ELSE IF outcome = "expired"
        THEN IF cancelled.err # ""
             THEN [db |-> rec.db, err |-> cancelled.err, fate |-> fate]
             ELSE [db |-> removed_into.db,
                   err |-> IF removed_into.err = "" THEN "Redelegate failed"
                           ELSE removed_into.err,
                   fate |-> Mark(fate, signature, "cancelled")]
        ELSE IF outcome = "killed" THEN [db |-> rec.db, err |-> "", fate |-> fate]
        ELSE IF ~date_ok THEN [db |-> rec.db, err |-> "Rpc", fate |-> fate]
        ELSE IF confirmed.err # ""
        THEN [db |-> rec.db, err |-> confirmed.err, fate |-> fate]
        ELSE [db |-> confirmed.db, err |-> "", fate |-> Mark(fate, signature, "confirmed")]

ProcessAccountRedelegate(from_address, into_address, method, outcome, failed, date_ok) ==
    /\ from_address # into_address
    /\ next_sig <= MaxSigs
    /\ \E r \in {process_account_redelegate(from_address, into_address, method, outcome,
                                            date_ok)} :
          /\ IF r.err \in {"already exists", "NoAccount", "insufficient balance"}
             THEN UNCHANGED <<block_height, sig_status, sig_date, next_sig, calc, send, lock>>
             ELSE ChainAfterSend(next_sig, block_height + ValidBlocks, outcome, failed)
          /\ db' = r.db
          /\ fate' = r.fate
          /\ last' = r.err

\* ---------------------------------------------------------------- account sync
\* Option<Pubkey>: None is the empty string
NoAddress == ""

\* account.token.amount(0.005): a balance excess up to this is not recorded
BalanceTolerance == 1

\* The inflation reward an address receives for an epoch it is rewarded in
RewardAmount == 1

\* db.get_accounts() / db.get_account_tokens(address), split by no_sync
AccountKeys(d, address, no_sync) ==
    SelectSeq(KeyOrder, LAMBDA k : /\ Tracked(d, k)
                                   /\ address \in {NoAddress, k[1]}
                                   /\ get_account(d, k).no_sync = no_sync)

\* lots.sort_by(price): a stable sort by ascending price
RECURSIVE SortByPrice(_)
SortByPrice(lots) ==
    IF lots = <<>> THEN <<>>
    ELSE LET sorted == SortByPrice(Tail(lots))
             lot == Head(lots)
             Cheaper(l) == l.price < lot.price
             NotCheaper(l) == l.price >= lot.price
         IN  SelectSeq(sorted, Cheaper) \o <<lot>> \o SelectSeq(sorted, NotCheaper)

\* The balance the chain reports for an account whose tracked balance is
\* `balance`: it differs by `extra` for the account `extra_key`.
ChainBalance(key, balance, extra_key, extra) ==
    IF key = extra_key THEN balance + extra ELSE balance

\* The accounts' working copies: st.accts; the store: st.db
RECURSIVE ReconcileNoSync(_, _, _, _)
ReconcileNoSync(d, keys, extra_key, extra) ==
    IF keys = <<>> THEN d
    ELSE LET key == Head(keys)
             account == get_account(d, key)
             current_balance == ChainBalance(key, account.last_update_balance,
                                             extra_key, extra)
             sorted == SortByPrice(account.lots)
             lots == [sorted EXCEPT ![1].amount =
                         @ + (current_balance - account.last_update_balance)]
             d1 == IF account.lots # <<>> /\ current_balance > account.last_update_balance
                   THEN update_account(d, key,
                            [account EXCEPT !.lots = lots,
                                            !.last_update_balance = current_balance]).db
                   ELSE d
         IN  ReconcileNoSync(d1, Tail(keys), extra_key, extra)

\* RewardAccounts with the reward lot added but the balance left as it was
RECURSIVE RewardAccountsLotOnly(_, _, _, _, _, _)
RewardAccountsLotOnly(st, keys, epoch, rewarded, date_ok, price) ==
    IF keys = <<>> \/ st.err # "" THEN st
    ELSE LET key == Head(keys)
             account == st.accts[key]
             n == next_lot_number(st.db)
             lot == Lot(n.n, epoch + 1, price, "EpochReward", RewardAmount)
             step ==
                 IF account.last_update_epoch >= epoch \/ key[1] # rewarded THEN st
                 ELSE IF is_token(key[2]) THEN [st EXCEPT !.err = "panic"]
                 ELSE IF ~date_ok THEN [st EXCEPT !.err = "Rpc"]
                 ELSE [st EXCEPT !.db = n.db,
                                 !.accts[key] = [account EXCEPT !.lots = Append(@, lot)]]
         IN  RewardAccountsLotOnly(step, Tail(keys), epoch, rewarded, date_ok, price)

\* One epoch of the inflation-reward scan over the accounts being synced
RECURSIVE RewardAccounts(_, _, _, _, _, _)
RewardAccounts(st, keys, epoch, rewarded, date_ok, price) ==
    IF keys = <<>> \/ st.err # "" THEN st
    ELSE LET key == Head(keys)
             account == st.accts[key]
             when == epoch + 1
             n == next_lot_number(st.db)
             lot == Lot(n.n, when, price, "EpochReward", RewardAmount)
             step ==
                 IF account.last_update_epoch >= epoch \/ key[1] # rewarded THEN st
                 ELSE IF is_token(key[2]) THEN [st EXCEPT !.err = "panic"]
                 ELSE IF ~date_ok THEN [st EXCEPT !.err = "Rpc"]
                 ELSE [st EXCEPT !.db = n.db,
                                 !.accts[key] =
                                     [account EXCEPT !.last_update_balance =
                                                        @ + RewardAmount,
                                                     !.lots = Append(@, lot)]]
         IN  RewardAccounts(step, Tail(keys), epoch, rewarded, date_ok, price)

RECURSIVE RewardEpochs(_, _, _, _, _, _, _)
RewardEpochs(st, keys, epoch, stop_epoch, rewarded, date_ok, price) ==
    IF epoch > stop_epoch \/ st.err # "" THEN st
    ELSE RewardEpochs(RewardAccounts(st, keys, epoch, rewarded, date_ok, price), keys,
                      epoch + 1, stop_epoch, rewarded, date_ok, price)

\* The scan for unexpected balance changes, which also stores each account
RECURSIVE RescanBalances(_, _, _, _, _, _)
RescanBalances(st, keys, stop_epoch, extra_key, extra, price) ==
    IF keys = <<>> \/ st.err # "" THEN st
    ELSE LET key == Head(keys)
             account == [st.accts[key] EXCEPT !.last_update_epoch = stop_epoch]
             current_balance == ChainBalance(key, account.last_update_balance,
                                             extra_key, extra)
             n == next_lot_number(st.db)
             lot == Lot(n.n, today, price, "NotAvailable",
                        current_balance - account.last_update_balance)
             grown == current_balance > account.last_update_balance + BalanceTolerance
             stored == IF grown
                       THEN [account EXCEPT !.lots = Append(@, lot),
                                            !.last_update_balance = current_balance]
                       ELSE account
             d1 == IF grown THEN n.db ELSE st.db
             u == update_account(d1, key, stored)
         IN  RescanBalances([st EXCEPT !.db = u.db, !.err = u.err], Tail(keys),
                            stop_epoch, extra_key, extra, price)

RECURSIVE MinEpoch(_, _, _)
MinEpoch(d, keys, default) ==
    IF keys = <<>> THEN default
    ELSE LET e == get_account(d, Head(keys)).last_update_epoch
             m == MinEpoch(d, Tail(keys), e)
         IN  IF e < m THEN e ELSE m

\* `sys account sync`.  max_epochs_to_process is a count or NoAmount (None);
\* `overflow_checks` tells whether the build traps integer overflow.
ProcessAccountSync(address, max_epochs_to_process, reconcile_no_sync_account_balances, force_rescan_balances, fail_at, rewarded, extra_key, extra, date_ok, price, overflow_checks) ==
    \E t \in {process_account_sync_pending_transfers(fail_at)} :
    \E d1 \in {IF reconcile_no_sync_account_balances
               THEN ReconcileNoSync(t.db, AccountKeys(t.db, address, TRUE),
                                    extra_key, extra)
               ELSE t.db} :
    LET accounts == AccountKeys(t.db, address, FALSE)
        no_sync_accounts == AccountKeys(t.db, address, TRUE)
        unknown == address # NoAddress /\ accounts \o no_sync_accounts = <<>>
        epoch_stop == IF Epoch = 0 THEN 0 ELSE Epoch - 1
        start_epoch == MinEpoch(d1, accounts, epoch_stop) + 1
        underflow == max_epochs_to_process = 0 /\ force_rescan_balances
        limit == start_epoch + (max_epochs_to_process - 1)
        stop_epoch == IF max_epochs_to_process = NoAmount \/ underflow THEN epoch_stop
                      ELSE IF limit < epoch_stop THEN limit ELSE epoch_stop
        nothing_to_do == \/ start_epoch > epoch_stop /\ ~force_rescan_balances
                         \/ max_epochs_to_process = 0 /\ ~force_rescan_balances
        accts == [k \in {accounts[i] : i \in DOMAIN accounts} |-> get_account(d1, k)]
    IN
    \E r \in {RewardEpochs([db |-> d1, accts |-> accts, err |-> ""], accounts,
                           start_epoch, stop_epoch, rewarded, date_ok, price)} :
    \E f \in {RescanBalances(r, accounts, stop_epoch, extra_key, extra, price)} :
    \E out \in {IF t.err # "" THEN [db |-> t.db, err |-> t.err]
                ELSE IF unknown THEN [db |-> t.db, err |-> "does not exist"]
                ELSE IF nothing_to_do THEN [db |-> d1, err |-> ""]
                ELSE IF underflow /\ overflow_checks THEN [db |-> d1, err |-> "panic"]
                ELSE [db |-> f.db, err |-> f.err]} :
        /\ extra < 0 => /\ Tracked(db, extra_key)
                        /\ get_account(db, extra_key).last_update_balance + extra >= 0
        /\ out.db.lot_number <= MaxLots + 1
        /\ \A k \in DOMAIN out.db.accounts :
               get_account(out.db, k).last_update_balance <= MaxBalance
        /\ db' = out.db
        /\ fate' = t.fate
        /\ last' = out.err
        /\ UNCHANGED <<block_height, sig_status, sig_date, next_sig, calc, send, lock>>

\* ------------------------------------------------------------------- the chain
AdvanceBlock ==
    /\ block_height < MaxHeight
    /\ block_height' = block_height + 1
    /\ UNCHANGED <<db, sig_status, sig_date, next_sig, fate, last, calc, send, lock>>

\* The chain goes on to the next epoch, in the runs that follow an account
\* over MaxEpoch epochs
AdvanceEpoch ==
    /\ block_height < MaxEpoch
    /\ block_height' = block_height + 1
    /\ UNCHANGED <<db, sig_status, sig_date, next_sig, fate, last, calc, send, lock>>

AllPending(d) == d.pending_transfers \o d.pending_swaps \o d.pending_deposits

\* A submitted transaction the chain has not seen lands while its blockhash is
\* valid: it is first processed, then confirmed (ok) or failed (err).
ChainLand(signature, status) ==
    /\ signature \in PendingSignatures(db)
    /\ \/ /\ sig_status[signature] = "none"
          /\ block_height <= Find(AllPending(db), signature).last_valid_block_height
       \/ /\ sig_status[signature] = "processed"
          /\ status = "ok"
    /\ sig_status' = [sig_status EXCEPT ![signature] = status]
    /\ sig_date' = IF sig_status[signature] = "none"
                   THEN [sig_date EXCEPT ![signature] = block_height]
                   ELSE sig_date
    /\ UNCHANGED <<db, block_height, next_sig, fate, last, calc, send, lock>>

\* ------------------------------------------- send_transaction_until_expired
\* The loop as a process: `pc` is its position, `attempted` and `since` stand
\* for last_send_attempt (whether it is Some, and the sleeps since it was set),
\* `in_flight` is whether the cluster holds the transaction and may still land
\* it, `returned` is what the call returned.  `expired_seen` and
\* `sent_after_expiry` are history: get_epoch_info has answered a height above
\* last_valid_block_height, and the transaction was submitted after that.
NoSend ==
    [pc |-> "idle", signature |-> 0, last_valid_block_height |-> 0, attempted |-> FALSE,
     since |-> 0, in_flight |-> FALSE, returned |-> "none", expired_seen |-> FALSE,
     sent_after_expiry |-> FALSE]

\* A handler calls send_transaction_until_expired with a signed transaction
SendTransactionUntilExpired(valid) ==
    /\ send.pc = "idle"
    /\ block_height + valid < MaxHeight
    /\ send' = [NoSend EXCEPT !.pc = "loop", !.signature = next_sig,
                              !.last_valid_block_height = block_height + valid]
    /\ UNCHANGED <<db, block_height, sig_status, sig_date, next_sig, fate, last, calc, lock>>

\* The head of the loop: the first pass, or more than two seconds after the
\* last attempt, goes on to get_epoch_info; otherwise the loop sleeps.  The two
\* seconds have passed for certain after MaxSleeps sleeps.
SendLoop ==
    /\ send.pc = "loop"
    /\ \E due \in BOOLEAN :
          /\ ~send.attempted \/ send.since >= MaxSleeps => due
          /\ ~due => send.attempted /\ send.since > 0
          /\ send' = [send EXCEPT !.pc = IF due THEN "epoch" ELSE "sleep"]
    /\ UNCHANGED <<db, block_height, sig_status, sig_date, next_sig, fate, last, calc, lock>>

\* A variant of the expiry check that gives up at last_valid_block_height.
GetEpochInfoEarly(answer) ==
    /\ send.pc = "epoch"
    /\ send' = IF answer = "Ok" /\ block_height >= send.last_valid_block_height
               THEN [send EXCEPT !.pc = "done", !.returned = "false"]
               ELSE [send EXCEPT !.pc = "send"]
    /\ UNCHANGED <<db, block_height, sig_status, sig_date, next_sig, fate, last, calc, lock>>

\* A variant of the expiry check that sends whatever get_epoch_info answers.
GetEpochInfoIgnored(answer) ==
    /\ send.pc = "epoch"
    /\ send' = [send EXCEPT !.pc = "send",
                            !.expired_seen = @ \/ (answer = "Ok" /\ block_height
                                                      > send.last_valid_block_height)]
    /\ UNCHANGED <<db, block_height, sig_status, sig_date, next_sig, fate, last, calc, lock>>

\* rpc_client.get_epoch_info(): Ok with the block height, or Err
GetEpochInfo(answer) ==
    /\ send.pc = "epoch"
    /\ send' = IF answer = "Ok" /\ block_height > send.last_valid_block_height
               THEN [send EXCEPT !.pc = "done", !.returned = "false",
                                 !.expired_seen = TRUE]
               ELSE [send EXCEPT !.pc = "send"]
    /\ UNCHANGED <<db, block_height, sig_status, sig_date, next_sig, fate, last, calc, lock>>

\* send_rpc_client.send_transaction_with_config: a failure is only printed.  The
\* cluster takes the transaction while its blockhash is valid.
SendTransactionWithConfig(ok) ==
    /\ send.pc = "send"
    /\ send' = [send EXCEPT !.pc = "sleep", !.attempted = TRUE, !.since = 0,
                            !.in_flight = @ \/ (ok /\ block_height
                                                    <= send.last_valid_block_height),
                            !.sent_after_expiry = @ \/ send.expired_seen]
    /\ UNCHANGED <<db, block_height, sig_status, sig_date, next_sig, fate, last, calc, lock>>

\* sleep(Duration::from_millis(500))
SendSleep ==
    /\ send.pc = "sleep"
    /\ send' = [send EXCEPT !.pc = "confirm",
                            !.since = IF @ < MaxSleeps THEN @ + 1 ELSE @]
    /\ UNCHANGED <<db, block_height, sig_status, sig_date, next_sig, fate, last, calc, lock>>

\* A variant of the confirmation poll that takes a failed query for success.
ConfirmTransactionTrusting(answer) ==
    /\ send.pc = "confirm"
    /\ answer = "true" => sig_status[send.signature] = "ok"
    /\ send' = IF answer \in {"true", "Err"}
               THEN [send EXCEPT !.pc = "done", !.returned = "true"]
               ELSE [send EXCEPT !.pc = "loop"]
    /\ UNCHANGED <<db, block_height, sig_status, sig_date, next_sig, fate, last, calc, lock>>

\* rpc_client.confirm_transaction: Ok(true) when the chain has the signature
\* confirmed and succeeded, Ok(false), or Err
ConfirmTransaction(answer) ==
    /\ send.pc = "confirm"
    /\ answer = "true" => sig_status[send.signature] = "ok"
    /\ send' = IF answer = "true"
               THEN [send EXCEPT !.pc = "done", !.returned = "true"]
               ELSE [send EXCEPT !.pc = "loop"]
    /\ UNCHANGED <<db, block_height, sig_status, sig_date, next_sig, fate, last, calc, lock>>

\* The cluster lands the transaction it holds, while the blockhash is valid:
\* processed first, then confirmed (ok), or failed (err).
SendLand(status) ==
    /\ send.in_flight
    /\ \/ /\ sig_status[send.signature] = "none"
          /\ block_height <= send.last_valid_block_height
       \/ /\ sig_status[send.signature] = "processed"
          /\ status = "ok"
    /\ sig_status' = [sig_status EXCEPT ![send.signature] = status]
    /\ sig_date' = IF sig_status[send.signature] = "none"
                   THEN [sig_date EXCEPT ![send.signature] = block_height]
                   ELSE sig_date
    /\ UNCHANGED <<db, block_height, next_sig, fate, last, calc, send, lock>>

\* --------------------------------------- handlers that submit a transaction
\* Each handler signs its transaction, writes the pending record, and only
\* then calls send_transaction_until_expired.  `command` is the handler.
Commands == {"deposit", "sweep", "swap", "sync_sweep"}

\* process_exchange_deposit: db.record_deposit(signature, ...)?
process_exchange_deposit_record(from_address, deposit_address, amount, signature, last_valid_block_height) ==
    record_deposit(add_exchange_deposit_address_to_db(db, <<deposit_address, "SOL">>),
                   signature, last_valid_block_height, <<from_address, "SOL">>, amount,
                   "exchange", <<deposit_address, "SOL">>, "FirstInFirstOut", NoLotNumbers)

\* process_account_sweep: db.record_transfer(signature, ..., Some(sweep_amount), ...)?
process_account_sweep_record(from_address, to_address, sweep_amount, signature, last_valid_block_height) ==
    record_transfer(db, signature, last_valid_block_height, sweep_amount,
                    <<from_address, "SOL">>, <<to_address, "SOL">>, "FirstInFirstOut",
                    NoLotNumbers)

\* process_jup_swap: the account of the token swapped to is added, then
\* db.record_swap(signature, ...)?
process_jup_swap_record(address, from_token, to_token, signature, last_valid_block_height) ==
    LET to == <<address, to_token>>
        d1 == IF Tracked(db, to) THEN db
              ELSE add_account(db, to, TrackedAccount(Epoch, 0, <<>>, FALSE)).db
    IN  record_swap(d1, signature, last_valid_block_height, address, from_token, 1,
                    to_token, 1, "FirstInFirstOut")

\* process_account_sync_sweep: db.record_transfer(signature, ..., None, ...)?
process_account_sync_sweep_record(transitory_sweep_stake_address, sweep_stake_address, signature, last_valid_block_height) ==
    record_transfer(db, signature, last_valid_block_height, NoAmount,
                    <<transitory_sweep_stake_address, "SOL">>,
                    <<sweep_stake_address, "SOL">>, "FirstInFirstOut", NoLotNumbers)

SubmitRecord(command, signature, last_valid_block_height) ==
    CASE command = "deposit" ->
             process_exchange_deposit_record("a1", "a2", 1, signature,
                                             last_valid_block_height)
      [] command = "sweep" ->
             process_account_sweep_record("a1", "a2", 1, signature,
                                          last_valid_block_height)
      [] command = "swap" ->
             process_jup_swap_record("a1", "SOL", "wSOL", signature,
                                     last_valid_block_height)
      [] command = "sync_sweep" ->
             process_account_sync_sweep_record("a1", "a2", signature,
                                               last_valid_block_height)

\* A variant of the handlers that calls send_transaction_until_expired without
\* having written the pending record.
HandlerSubmitUnrecorded(command, valid) ==
    /\ send.pc = "idle"
    /\ next_sig <= MaxSigs
    /\ block_height + valid < MaxHeight
    /\ Tracked(db, <<"a1", "SOL">>)
    /\ send' = [NoSend EXCEPT !.pc = "loop", !.signature = next_sig,
                              !.last_valid_block_height = block_height + valid]
    /\ UNCHANGED <<db, block_height, sig_status, sig_date, next_sig, fate, last, calc, lock>>

\* The handler up to its call of send_transaction_until_expired: the record is
\* written, and an error of the store returns before anything is sent.
HandlerSubmit(command, valid) ==
    /\ send.pc = "idle"
    /\ next_sig <= MaxSigs
    /\ block_height + valid < MaxHeight
    /\ Tracked(db, <<"a1", "SOL">>)
    /\ \E r \in {SubmitRecord(command, next_sig, block_height + valid)} :
          /\ db' = r.db
          /\ last' = r.err
          /\ fate' = IF r.err = "" THEN Mark(fate, next_sig, "recorded") ELSE fate
          /\ send' = IF r.err = ""
                     THEN [NoSend EXCEPT !.pc = "loop", !.signature = next_sig,
                                         !.last_valid_block_height = block_height + valid]
                     ELSE send
    /\ UNCHANGED <<block_height, sig_status, sig_date, next_sig, calc, lock>>

\* What the handler does with the value send_transaction_until_expired
\* returned: false cancels the transfer or the swap (a deposit stays recorded),
\* true confirms the transfer of a sweep at once and leaves a swap or a deposit
\* to the sync.
handler_return(signature, returned) ==
    LET transfer == signature \in SignaturesOf(db.pending_transfers)
        swap == signature \in SignaturesOf(db.pending_swaps)
        cancelled == IF transfer THEN cancel_transfer(db, signature)
                     ELSE cancel_swap(db, signature)
        confirmed == confirm_transfer(db, signature, get_signature_date(signature))
    IN  IF returned = "false"
        THEN IF transfer \/ swap
             THEN [db |-> cancelled.db,
                   err |-> IF cancelled.err # "" THEN cancelled.err
                           ELSE IF transfer THEN "Sweep failed" ELSE "Swap failed",
                   fate |-> IF cancelled.err = "" THEN Mark(fate, signature, "cancelled")
                            ELSE fate]
             ELSE [db |-> db, err |-> "Deposit failed", fate |-> fate]
        ELSE IF transfer
             THEN [db |-> confirmed.db, err |-> confirmed.err,
                   fate |-> IF confirmed.err = "" THEN Mark(fate, signature, "confirmed")
                            ELSE fate]
             ELSE [db |-> db, err |-> "", fate |-> fate]

HandlerReturn ==
    /\ send.pc = "done"
    /\ \E r \in {handler_return(send.signature, send.returned)} :
          /\ db' = r.db
          /\ last' = r.err
          /\ fate' = r.fate
    /\ send' = NoSend
    /\ next_sig' = next_sig + 1
    /\ UNCHANGED <<block_height, sig_status, sig_date, calc, lock>>

\* ------------------------------------------------------------ the store lock
\* main() of every instance of the program: `holder` is the instance that
\* holds the exclusive lock on the store's file (0: nobody), `pc` is each
\* instance's position, `writes` counts the mutations of the store.  `held` and
\* `unlocked_access` are history: the instances that acquired the lock, and
\* whether an instance opened or mutated the store while not holding it.
Instances == 1..MaxInstances

NoLock ==
    [holder |-> 0, pc |-> [i \in Instances |-> "idle"], writes |-> 0, held |-> {},
     unlocked_access |-> FALSE]

\* An instance starts: File::open(&db_path) and fd_lock::RwLock::new
InstanceStart(i) ==
    /\ lock.pc[i] = "idle"
    /\ lock' = [lock EXCEPT !.pc[i] = "locking"]
    /\ UNCHANGED <<db, block_height, sig_status, sig_date, next_sig, fate, last, calc, send>>

\* A variant of the lock loop that goes on when try_write fails.
TryWriteOnce(i) ==
    /\ lock.pc[i] = "locking"
    /\ lock' = IF lock.holder = 0
               THEN [lock EXCEPT !.holder = i, !.pc[i] = "locked", !.held = @ \cup {i}]
               ELSE [lock EXCEPT !.pc[i] = "locked"]
    /\ UNCHANGED <<db, block_height, sig_status, sig_date, next_sig, fate, last, calc, send>>

\* db_fd_lock.try_write(): Ok(lock) leaves the loop, Err is printed and the
\* instance sleeps.  The operating system grants the lock only while nobody
\* holds it.
TryWrite(i) ==
    /\ lock.pc[i] = "locking"
    /\ lock' = IF lock.holder = 0
               THEN [lock EXCEPT !.holder = i, !.pc[i] = "locked", !.held = @ \cup {i}]
               ELSE [lock EXCEPT !.pc[i] = "waiting"]
    /\ UNCHANGED <<db, block_height, sig_status, sig_date, next_sig, fate, last, calc, send>>

\* std::thread::sleep(Duration::from_secs(1)), then the loop tries again
LockSleep(i) ==
    /\ lock.pc[i] = "waiting"
    /\ lock' = [lock EXCEPT !.pc[i] = "locking"]
    /\ UNCHANGED <<db, block_height, sig_status, sig_date, next_sig, fate, last, calc, send>>

\* Releasing: the lock guard lives until the process ends
Released(l, i) == IF l.holder = i THEN [l EXCEPT !.holder = 0] ELSE l

\* db::new(&db_path): the store is opened, or the instance exits with status 1
OpenDb(i, opened) ==
    /\ lock.pc[i] = "locked"
    /\ lock' = IF opened
               THEN [lock EXCEPT !.pc[i] = "running",
                                 !.unlocked_access = @ \/ lock.holder # i]
               ELSE Released([lock EXCEPT !.pc[i] = "exited"], i)
    /\ UNCHANGED <<db, block_height, sig_status, sig_date, next_sig, fate, last, calc, send>>

\* The instance's command mutates the store
InstanceWrite(i) ==
    /\ lock.pc[i] = "running"
    /\ lock.writes < MaxWrites
    /\ lock' = [lock EXCEPT !.writes = @ + 1,
                            !.unlocked_access = @ \/ lock.holder # i]
    /\ UNCHANGED <<db, block_height, sig_status, sig_date, next_sig, fate, last, calc, send>>

\* The command is over and the process ends
InstanceExit(i) ==
    /\ lock.pc[i] = "running"
    /\ lock' = Released([lock EXCEPT !.pc[i] = "exited"], i)
    /\ UNCHANGED <<db, block_height, sig_status, sig_date, next_sig, fate, last, calc, send>>

\* ------------------------------------------------------------- specification
LotNumberChoices ==
    {NoLotNumbers} \cup {SomeLotNumbers({n}) : n \in 1..MaxLots}

\* --when: absent, or the first day
WhenChoices == {NoDate, 0}

Init ==
    /\ db = [accounts |-> <<>>, disposed_lots |-> <<>>, lot_number |-> 1,
             pending_transfers |-> <<>>, pending_swaps |-> <<>>,
             pending_deposits |-> <<>>, pending_withdrawals |-> <<>>]
    /\ block_height = 0
    /\ sig_status = [s \in Sigs |-> "none"]
    /\ sig_date = [s \in Sigs |-> NoDate]
    /\ next_sig = 1
    /\ fate = [s \in Sigs |-> {}]
    /\ last = ""
    /\ calc = NoCalc
    /\ send = NoSend
    /\ lock = NoLock

A1Sol == <<"a1", "SOL">>

\* The exchange's recent withdrawals when the ledger has none pending
NoWithdrawals == [tag \in Sigs |-> "unknown"]

\* ---- commands with plain arguments
\* `sys account add --when <day 0>` of a1's SOL: bought with fiat, synced
AccountAdd ==
    ProcessAccountAdd(A1Sol, 0, 1, FALSE, FALSE, MaxAmount)

AccountDispose ==
    ProcessAccountDispose(A1Sol, 1, NoDate, 1, "FirstInFirstOut", NoLotNumbers)

AccountDrop ==
    ProcessAccountDrop(A1Sol, 1, "LastInFirstOut", NoLotNumbers)

AccountSync ==
    \E rewarded \in {NoAddress, "a1"} :
        ProcessAccountSync(NoAddress, NoAmount, FALSE, FALSE, 0, rewarded, A1Sol, 0,
                           TRUE, 1, TRUE)

AccountWrap ==
    \E outcome \in SendOutcomes :
        ProcessAccountWrap("a1", 1, "FirstInFirstOut", NoLotNumbers, outcome, FALSE, TRUE)

AccountMergeExisting ==
    ProcessAccountMergeExisting("a1", "a2", "ok")

JupSwap ==
    \E outcome \in SendOutcomes :
        ProcessJupSwap("a1", "SOL", 1, "wSOL", 2, 1, "FirstInFirstOut", FALSE, "none",
                       outcome, FALSE)

SyncSwapsRun == ProcessSyncSwaps(0, 1, 1)

ExchangeDeposit ==
    \E outcome \in SendOutcomes :
        ProcessExchangeDeposit("a1", "a2", "SOL", 1, "FirstInFirstOut", NoLotNumbers,
                               outcome, FALSE)

SyncExchange ==
    \E exchange_view \in {"absent", "match"} :
        ProcessSyncExchange(NoWithdrawals, 0, exchange_view, 1)

Chain ==
    \/ AdvanceBlock
    \/ \E signature \in Sigs, status \in {"ok", "err"} : ChainLand(signature, status)

\* ---- commands with any arguments
\* `sys account add` with --when, --price, --no-sync and any amount
AccountAddAny ==
    \E when \in WhenChoices, price \in Prices, no_sync \in BOOLEAN, amount \in Amounts :
        ProcessAccountAdd(A1Sol, when, price, FALSE, no_sync, amount)

\* `sys account dispose` with --lot-selection and --lot
AccountDisposeAny ==
    \E amount \in Amounts, method \in Methods, lot_numbers \in LotNumberChoices :
        ProcessAccountDispose(A1Sol, amount, NoDate, 1, method, lot_numbers)

AccountDropAny ==
    \E amount \in Amounts, method \in {"LastInFirstOut"},
       lot_numbers \in LotNumberChoices :
        ProcessAccountDrop(A1Sol, amount, method, lot_numbers)

AccountSyncAny ==
    \E reconcile \in BOOLEAN, rewarded \in {NoAddress, "a1"}, extra \in {0, 2},
       price \in Prices :
        ProcessAccountSync(NoAddress, NoAmount, reconcile, FALSE, 0, rewarded, A1Sol,
                           extra, TRUE, price, TRUE)

AccountWrapAny ==
    \E amount \in {NoAmount} \cup (1..MaxAmount), outcome \in SendOutcomes,
       failed \in BOOLEAN, date_ok \in BOOLEAN :
        /\ failed => outcome = "expired"
        /\ ~date_ok => outcome = "confirmed"
        /\ ProcessAccountWrap("a1", amount, "FirstInFirstOut", NoLotNumbers, outcome,
                              failed, date_ok)

AccountMergeExistingAny ==
    \E from_address \in Addresses, into_address \in Addresses,
       status \in {"none", "ok", "err"} :
        ProcessAccountMergeExisting(from_address, into_address, status)

AccountSyncPendingTransfers ==
    \E fail_at \in 0..MaxSigs : ProcessAccountSyncPendingTransfers(fail_at)

JupSwapAny ==
    \E from_token \in Tokens, to_token \in Tokens,
       from_token_price \in Prices, to_token_price \in Prices,
       amount \in {NoAmount} \cup (1..MaxAmount), outcome \in SendOutcomes,
       failed \in BOOLEAN :
        /\ from_token # to_token
        /\ to_token_price = (MaxPrice + 1) - from_token_price
        /\ failed => outcome = "expired"
        /\ ProcessJupSwap("a1", from_token, from_token_price, to_token, to_token_price,
                          amount, "FirstInFirstOut", FALSE, "none", outcome, failed)

\* `sys jup swap --signature`
JupSwapExisting ==
    \E from_token \in Tokens, to_token \in Tokens, status \in {"none", "ok", "err"} :
        /\ from_token # to_token
        /\ ProcessJupSwap("a1", from_token, 1, to_token, 1, NoAmount,
                          "FirstInFirstOut", TRUE, status, "killed", FALSE)

SyncSwapsAny ==
    \E fail_at \in 0..1, from_amount \in 1..MaxAmount, to_amount \in 1..MaxAmount :
        ProcessSyncSwaps(fail_at, from_amount, to_amount)

ExchangeDepositAny ==
    \E from_address \in Addresses, deposit_address \in Addresses,
       amount \in {NoAmount} \cup (1..MaxAmount), outcome \in SendOutcomes,
       failed \in BOOLEAN :
        /\ failed => outcome = "expired"
        /\ ProcessExchangeDeposit(from_address, deposit_address, "SOL", amount,
                                  "FirstInFirstOut", NoLotNumbers, outcome, failed)

\* The chain, with transactions seen before they reach the commitment level
ChainAny ==
    \/ AdvanceBlock
    \/ \E signature \in Sigs, status \in {"processed", "ok", "err"} :
          ChainLand(signature, status)

SyncExchangeAny ==
    \E fail_at \in 0..MaxSigs, exchange_view \in {"None", "absent", "mismatch", "match"},
       price \in Prices :
        ProcessSyncExchange(NoWithdrawals, fail_at, exchange_view, price)

\* ---- the ledger: accounts, lots, disposals and the account sync
NextLedger ==
    \/ AccountAddAny
    \/ AccountDisposeAny
    \/ AccountDropAny
    \/ AccountSyncAny
    \/ AdvanceBlock

SpecLedger == Init /\ [][NextLedger]_vars

\* ---- transfers between tracked accounts
NextTransfers ==
    \/ AccountAdd
    \/ AccountWrapAny
    \/ AccountMergeExistingAny
    \/ AccountSyncPendingTransfers
    \/ Chain

SpecTransfers == Init /\ [][NextTransfers]_vars

\* ---- swaps
NextSwaps ==
    \/ AccountAdd
    \/ JupSwapAny
    \/ JupSwapExisting
    \/ SyncSwapsAny
    \/ Chain

SpecSwaps == Init /\ [][NextSwaps]_vars

\* ---- exchange deposits
NextDeposits ==
    \/ AccountAdd
    \/ ExchangeDepositAny
    \/ SyncExchangeAny
    \/ ChainAny

SpecDeposits == Init /\ [][NextDeposits]_vars

\* ---- lots moved between accounts, lots deleted, accounts removed
AccountAddKey ==
    \E key \in Keys, amount \in 1..MaxAmount :
        ProcessAccountAdd(key, NoDate, 1, FALSE, FALSE, amount)

AccountLotSwap ==
    \E lot_number1 \in 1..(MaxLots + 1), lot_number2 \in 1..(MaxLots + 1) :
        ProcessAccountLotSwap(lot_number1, lot_number2)

AccountLotMove ==
    \E lot_number \in 1..(MaxLots + 1), to_address \in Addresses :
        ProcessAccountLotMove(lot_number, to_address)

\* One or two lot numbers, in either order
AccountLotDelete ==
    \E lot_number1 \in 1..(MaxLots + 1), lot_number2 \in 1..(MaxLots + 1),
       confirm \in BOOLEAN :
        ProcessAccountLotDelete(IF lot_number1 = lot_number2 THEN <<lot_number1>>
                                ELSE <<lot_number1, lot_number2>>, confirm)

AccountRemove ==
    \E key \in Keys, confirm \in BOOLEAN, proceed_even_if_lots_exist \in BOOLEAN :
        ProcessAccountRemove(key, confirm, proceed_even_if_lots_exist)

NextLots ==
    \/ AccountAddKey
    \/ AccountDispose
    \/ AccountLotSwap
    \/ AccountLotMove
    \/ AccountLotDelete
    \/ AccountRemove

SpecLots == Init /\ [][NextLots]_vars

\* ---- exchange withdrawals
\* What the exchange may report of the tags
WithdrawalViews == [Sigs -> {"unknown", "pending", "completed", "cancelled"}]

\* The exchange's account a1 and the destination a2
ExchangeAccountAdd ==
    \E address \in Addresses, amount \in {0, MaxAmount} :
        ProcessAccountAdd(<<address, "SOL">>, NoDate, 1, FALSE, FALSE, amount)

\* `sys <exchange> withdraw` from the exchange's account a1 to a2.  main runs the
\* pass of process_sync_exchange after it; here the pass is a step of its own.
ExchangeWithdraw ==
    \E amount \in {NoAmount, 1}, lot_numbers \in {NoLotNumbers, SomeLotNumbers({1})},
       requested \in BOOLEAN, tag \in Sigs :
        ProcessExchangeWithdraw("SOL", "a1", amount, "a2", "FirstInFirstOut",
                                lot_numbers, requested, tag, 0)

ExchangeSyncWithdrawals ==
    \E withdrawal_view \in WithdrawalViews :
        ProcessSyncExchange(withdrawal_view, 0, "absent", 1)

NextWithdrawals ==
    \/ ExchangeAccountAdd
    \/ AccountDispose
    \/ ExchangeWithdraw
    \/ ExchangeSyncWithdrawals
    \/ AdvanceBlock

SpecWithdrawals == Init /\ [][NextWithdrawals]_vars

\* ---- the gain calculator
\* The holding periods around the long-term threshold
HoldTimes == (LongTermDays - HoldSpread)..(LongTermDays + HoldSpread)

\* A disposed lot is classified (format_disposed_lot)
GainOfDisposedLot ==
    \E acquisition \in 0..MaxAcquired, hold_time \in HoldTimes :
        ClassifyGain(acquisition, acquisition + hold_time)

\* A lot still held is classified as of today (format_lot)
GainOfLot ==
    \E acquisition \in 0..MaxAcquired : ClassifyGain(acquisition, NoDate)

NextGain ==
    \/ GainOfDisposedLot
    \/ GainOfLot
    \/ AdvanceBlock

SpecGain == Init /\ [][NextGain]_vars

\* ---- commands that name the signature of a transaction made elsewhere
AccountAddSol ==
    \E address \in Addresses : ProcessAccountAdd(<<address, "SOL">>, 0, 1, FALSE, FALSE, MaxAmount)

AccountMergeSignature ==
    \E from_address \in Addresses, into_address \in Addresses, existing_signature \in Sigs,
       status \in {"none", "ok"} :
        ProcessAccountMergeSignature(from_address, into_address, existing_signature, status)

JupSwapSignature ==
    \E existing_signature \in Sigs :
        ProcessJupSwapSignature("a1", "SOL", "wSOL", existing_signature, "none")

NextPending ==
    \/ AccountAddSol
    \/ AccountMergeSignature
    \/ JupSwapSignature
    \/ ProcessAccountSyncPendingTransfers(0)
    \/ SyncSwapsRun
    \/ Chain

SpecPending == Init /\ [][NextPending]_vars

\* ---- the report of disposed lots: lots bought on different days, disposed later
A2Sol == <<"a2", "SOL">>

ReportAcquire ==
    \E key \in {A1Sol, A2Sol}, when \in {0, 400}, price \in Prices, income \in BOOLEAN,
       amount \in {500, 1000} :
        ProcessAccountAdd(key, when, price, income, FALSE, amount)

ReportLotMove == \E lot_number \in 1..MaxLots, to \in Addresses : ProcessAccountLotMove(lot_number, to)

ReportDispose ==
    \E amount \in {200, 1200, 1500}, method \in {"FirstInFirstOut", "LastInFirstOut"} :
        ProcessAccountDispose(A1Sol, amount, 401, 3, method, NoLotNumbers)

NextReport ==
    \/ ReportAcquire
    \/ ReportLotMove
    \/ ReportDispose

SpecReport == Init /\ [][NextReport]_vars

\* ---- the account sync, with every option, over synced and no-sync accounts
SyncAccountAdd ==
    \E key \in {A1Sol, A2Sol}, no_sync \in BOOLEAN :
        ProcessAccountAdd(key, NoDate, 1, FALSE, no_sync, 1)

AccountSyncOptions ==
    \E max_epochs_to_process \in {NoAmount, 0, 1}, reconcile \in BOOLEAN,
       force_rescan_balances \in BOOLEAN, extra \in {0, 2}, overflow_checks \in BOOLEAN :
        /\ reconcile => extra = 2
        /\ ~overflow_checks => max_epochs_to_process = 0 /\ force_rescan_balances
        /\ ProcessAccountSync(NoAddress, max_epochs_to_process, reconcile,
                              force_rescan_balances, 0, NoAddress, A1Sol, extra, TRUE, 1,
                              overflow_checks)

NextSync ==
    \/ SyncAccountAdd
    \/ JupSwap
    \/ AccountSyncOptions
    \/ AdvanceBlock

SpecSync == Init /\ [][NextSync]_vars

\* ---- exchange deposits of a fiat-fungible token and of SOL, and what the
\* exchange lists of them
A1Usdc == <<"a1", "USDC">>

FiatAccountAdd ==
    \E key \in {A1Sol, A1Usdc} : ProcessAccountAdd(key, 0, 1, FALSE, FALSE, MaxAmount)

FiatDeposit ==
    \E token \in {"SOL", "USDC"}, amount \in 1..MaxAmount, outcome \in SendOutcomes :
        ProcessExchangeDeposit("a1", "a2", token, amount, "FirstInFirstOut", NoLotNumbers,
                               outcome, FALSE)

FiatSync ==
    \E exchange_view \in {"None", "absent", "stolen", "near", "mismatch", "match"} :
        ProcessSyncExchange(NoWithdrawals, 0, exchange_view, 1)

NextExchange ==
    \/ FiatAccountAdd
    \/ FiatDeposit
    \/ FiatSync
    \/ ChainAny

SpecExchange == Init /\ [][NextExchange]_vars

\* ---- the reward scan of the account sync over several epochs
RewardsAccountAdd ==
    \E key \in {A1Sol, A2Sol} : ProcessAccountAdd(key, NoDate, 1, FALSE, FALSE, 0)

RewardsSync ==
    \E address \in {NoAddress, "a1"}, max_epochs_to_process \in {NoAmount, 0, 1},
       force_rescan_balances \in BOOLEAN, rewarded \in {NoAddress, "a1"},
       overflow_checks \in BOOLEAN :
        /\ ~overflow_checks => max_epochs_to_process = 0 /\ force_rescan_balances
        /\ ProcessAccountSync(address, max_epochs_to_process, FALSE, force_rescan_balances,
                              0, rewarded, A1Sol, 0, TRUE, 1, overflow_checks)

NextRewards ==
    \/ RewardsAccountAdd
    \/ RewardsSync
    \/ AdvanceEpoch

SpecRewards == Init /\ [][NextRewards]_vars

\* ---- pending transfers and swaps under repeated sync runs: records made
\* from an existing signature, the lots of the source disposed meanwhile, the
\* chain producing blocks, and the two passes of the sync with every RPC query
\* succeeding
SettleAccountAdd ==
    \E key \in {A1Sol, <<"a1", "wSOL">>} :
        /\ ~Tracked(db, key)
        /\ ProcessAccountAdd(key, 0, 1, FALSE, FALSE, IF key = A1Sol THEN MaxAmount ELSE 0)

SettleMerge ==
    \E existing_signature \in Sigs :
        /\ Tracked(db, A1Sol)
        /\ ProcessAccountMergeSignature("a1", "a2", existing_signature, "ok")

SettleSwap ==
    \E existing_signature \in Sigs, status \in {"none", "ok"} :
        /\ Tracked(db, <<"a1", "wSOL">>)
        /\ ProcessJupSwapSignature("a1", "SOL", "wSOL", existing_signature, status)

SettleDispose ==
    ProcessAccountDispose(A1Sol, MaxAmount, NoDate, 1, "FirstInFirstOut", NoLotNumbers)

SyncTransfersPass == ProcessAccountSyncPendingTransfers(0)

SyncSwapsPass == ProcessSyncSwaps(0, 1, 1)

NextSettle ==
    \/ SettleAccountAdd
    \/ SettleMerge
    \/ SettleSwap
    \/ SettleDispose
    \/ SyncTransfersPass
    \/ SyncSwapsPass
    \/ Chain

SpecSettle == Init /\ [][NextSettle]_vars

\* ---- stake accounts split and redelegated into a new account: accounts
\* added with one lot each, a part of a lot disposed, the account sync with
\* its rescan and its rewards, and the chain
SplitAccountAdd ==
    \E key \in {A1Sol, A2Sol}, amount \in 1..MaxAmount :
        ProcessAccountAdd(key, NoDate, 1, FALSE, FALSE, amount)

SplitDispose ==
    ProcessAccountDispose(A1Sol, 1, NoDate, 1, "FirstInFirstOut", NoLotNumbers)

SplitSync ==
    \E rewarded \in {NoAddress, "a1"}, extra \in 0..1 :
        ProcessAccountSync(NoAddress, NoAmount, FALSE, TRUE, 0, rewarded, A1Sol, extra,
                           TRUE, 1, TRUE)

AccountSplit ==
    \E from_address \in Addresses, into_address \in Addresses,
       amount_arg \in {NoAmount, 1},
       lot_numbers \in {NoLotNumbers, SomeLotNumbers({1})},
       outcome \in SendOutcomes, date_ok \in BOOLEAN :
        ProcessAccountSplit(from_address, into_address, amount_arg, "FirstInFirstOut",
                            lot_numbers, outcome, FALSE, date_ok)

AccountRedelegate ==
    \E from_address \in Addresses, into_address \in Addresses,
       outcome \in SendOutcomes, date_ok \in BOOLEAN :
        ProcessAccountRedelegate(from_address, into_address, "FirstInFirstOut", outcome,
                                 FALSE, date_ok)

NextSplit ==
    \/ SplitAccountAdd
    \/ SplitDispose
    \/ SplitSync
    \/ AccountSplit
    \/ AccountRedelegate
    \/ SyncTransfersPass
    \/ Chain

SpecSplit == Init /\ [][NextSplit]_vars

\* ---- lots collected into one account: accounts added on different days,
\* a part of the SOL of a1 wrapped
CollectAccountAdd ==
    \E key \in {A1Sol, A2Sol}, amount \in 1..MaxAmount :
        ProcessAccountAdd(key, NoDate, 1, FALSE, FALSE, amount)

CollectWrap ==
    \E amount_arg \in {NoAmount, 1} :
        ProcessAccountWrap("a1", amount_arg, "FirstInFirstOut", NoLotNumbers,
                           "confirmed", FALSE, TRUE)

AccountLotCollect ==
    \E address \in Addresses, token \in Tokens, method \in Methods :
        ProcessAccountLotCollect(address, token, method)

NextCollect ==
    \/ CollectAccountAdd
    \/ CollectWrap
    \/ AccountLotCollect
    \/ AdvanceBlock

SpecCollect == Init /\ [][NextCollect]_vars

\* ---- the send loop and the chain under it
SendStart == \E valid \in 0..ValidBlocks : SendTransactionUntilExpired(valid)

EpochInfoOk == GetEpochInfo("Ok")

EpochInfoErr == GetEpochInfo("Err")

SendAttempt == \E ok \in BOOLEAN : SendTransactionWithConfig(ok)

ConfirmPoll == \E answer \in {"true", "false", "Err"} : ConfirmTransaction(answer)

SendLands == \E status \in {"processed", "ok", "err"} : SendLand(status)

SendStep ==
    \/ SendStart
    \/ SendLoop
    \/ EpochInfoOk
    \/ EpochInfoErr
    \/ SendAttempt
    \/ SendSleep
    \/ ConfirmPoll

NextSend ==
    \/ SendStep
    \/ SendLands
    \/ AdvanceBlock

SpecSend == Init /\ [][NextSend]_vars

\* The process keeps running, blocks keep being produced, and get_epoch_info
\* answers again and again.
SpecSendFair ==
    /\ Init
    /\ [][NextSend]_vars
    /\ WF_vars(SendStep)
    /\ WF_vars(AdvanceBlock)
    /\ SF_vars(EpochInfoOk)

\* ---- handlers that record and then send, the send loop, and the chain
SubmitAccountAdd == ProcessAccountAdd(A1Sol, 0, 1, FALSE, FALSE, MaxAmount)

HandlerSubmits == \E command \in Commands, valid \in 0..ValidBlocks : HandlerSubmit(command, valid)

SubmitSendStep ==
    \/ SendLoop
    \/ EpochInfoOk
    \/ EpochInfoErr
    \/ SendAttempt
    \/ SendSleep
    \/ ConfirmPoll

NextSubmit ==
    \/ SubmitAccountAdd
    \/ HandlerSubmits
    \/ SubmitSendStep
    \/ HandlerReturn
    \/ SendLands
    \/ AdvanceBlock

SpecSubmit == Init /\ [][NextSubmit]_vars

\* ---- instances of the program on one store
NextLock ==
    \/ \E i \in Instances : InstanceStart(i)
    \/ \E i \in Instances : TryWrite(i)
    \/ \E i \in Instances : LockSleep(i)
    \/ \E i \in Instances : \E opened \in BOOLEAN : OpenDb(i, opened)
    \/ \E i \in Instances : InstanceWrite(i)
    \/ \E i \in Instances : InstanceExit(i)

SpecLock == Init /\ [][NextLock]_vars

\* ---- every command, with plain arguments
Next ==
    \/ AccountAdd
    \/ AccountDispose
    \/ AccountDrop
    \/ AccountSync
    \/ AccountWrap
    \/ AccountMergeExisting
    \/ AccountSyncPendingTransfers
    \/ JupSwap
    \/ SyncSwapsRun
    \/ ExchangeDeposit
    \/ SyncExchange
    \/ Chain

Spec == Init /\ [][Next]_vars

\* ===================================================================== claims
\* ---- vocabulary of the claims
Balance(d, key) == IF Tracked(d, key) THEN get_account(d, key).last_update_balance ELSE 0

LotsOf(d, key) == IF Tracked(d, key) THEN get_account(d, key).lots ELSE <<>>

AllLots(d) == LotsOf(d, KeyOrder[1]) \o LotsOf(d, KeyOrder[2]) \o LotsOf(d, KeyOrder[3])

\* The lots of a pool a disposal may take: all, or the ones named
Eligible(lots, lot_numbers) ==
    IF lot_numbers.some
    THEN SelectSeq(lots, LAMBDA l : l.lot_number \in lot_numbers.set)
    ELSE lots

RECURSIVE SumDisposed(_)
SumDisposed(records) ==
    IF records = <<>> THEN 0 ELSE Head(records).lot.amount + SumDisposed(Tail(records))

\* What was appended to a sequence
Appended(before, after) == SubSeq(after, Len(before) + 1, Len(after))

\* The signatures whose pending record is confirmed, or cancelled, in the
\* history `f` and not yet in the current one
Confirmed(f) == {s \in Sigs : "confirmed" \in f[s] \ fate[s]}
Cancelled(f) == {s \in Sigs : "cancelled" \in f[s] \ fate[s]}

\* The store `d` has the accounts' balances and lots, the disposal history and
\* the lot counter of the current store.
SameLedger(d) ==
    /\ d.disposed_lots = db.disposed_lots
    /\ d.lot_number = db.lot_number
    /\ DOMAIN db.accounts \subseteq DOMAIN d.accounts
    /\ \A key \in Keys : /\ Balance(d, key) = Balance(db, key)
                         /\ LotsOf(d, key) = LotsOf(db, key)

\* The pending lists of `d` are the current ones less the signatures in `gone`.
PendingLess(d, gone) ==
    LET Kept(r) == r.signature \notin gone IN
    /\ d.pending_transfers = SelectSeq(db.pending_transfers, Kept)
    /\ d.pending_swaps = SelectSeq(db.pending_swaps, Kept)
    /\ d.pending_deposits = SelectSeq(db.pending_deposits, Kept)

\* Every lot number the ledger holds, in an account or in the disposal history
IssuedLotNumbers(d) ==
    LotNumbersOf(AllLots(d)) \cup {d.disposed_lots[i].lot.lot_number : i \in DOMAIN d.disposed_lots}

\* ---- C1
\* C1: in every reachable state, every tracked account's last_update_balance
\* equals the sum of the amounts of its lots.
C1_BalanceIsSumOfLots ==
    \A key \in DOMAIN db.accounts : LotBalanceOk(get_account(db, key))

\* C1 witness: a later state of the ledger: lots were disposed, a pending
\* operation was confirmed, and an account holds several lots.
C1_Witness ==
    /\ last = ""
    /\ db.disposed_lots # <<>>
    /\ \E s \in Sigs : "confirmed" \in fate[s]
    /\ \E key \in DOMAIN db.accounts : Len(get_account(db, key).lots) >= 2

\* ---- C2
\* C2: a pending record reaches at most one terminal state (confirmed or
\* cancelled, never both), and a record that reached one is in no pending list.
C2_OneTerminalState ==
    \A s \in Sigs :
        /\ Cardinality(fate[s]) <= 1
        /\ fate[s] # {} => s \notin PendingSignatures(db)

\* C2 witness: one record was confirmed and another was cancelled.
C2_Witness ==
    \E s1 \in Sigs, s2 \in Sigs :
        /\ fate[s1] = {"confirmed"}
        /\ fate[s2] = {"cancelled"}
        /\ PendingSignatures(db) = {}

\* ---- C3
\* C3: a disposal or a drop of more than the total of the eligible lots of a
\* tracked account fails with InsufficientLots and changes nothing in the store:
\* the lots, the balance and the disposal history stay as they were.
C3_InsufficientLotsChangesNothing ==
    \A key \in Keys, amount \in Amounts, method \in Methods,
       lot_numbers \in LotNumberChoices :
        (/\ Tracked(db, key)
         /\ lot_numbers.set \subseteq LotNumbersOf(LotsOf(db, key))
         /\ amount > SumAmounts(Eligible(LotsOf(db, key), lot_numbers)))
        => LET disposal == process_account_dispose(key, amount, NoDate, 1, method,
                                                   lot_numbers)
               drop == process_account_drop(key, amount, method, lot_numbers)
           IN  /\ disposal.err = "InsufficientLots"
               /\ disposal.db = db
               /\ drop.err = "InsufficientLots"
               /\ drop.db = db

\* C3 witness: a disposal failed with InsufficientLots on an account that holds lots.
C3_Witness ==
    /\ last = "InsufficientLots"
    /\ LotsOf(db, A1Sol) # <<>>

\* ---- C4
\* C4: a successful disposal of A creates disposed lots whose amounts sum to A,
\* and leaves in the pool lots whose amounts sum to the pool's total less A.
C4_DisposalConservesThePool ==
    \A key \in Keys, amount \in Amounts, method \in Methods,
       lot_numbers \in LotNumberChoices :
        LET disposal == process_account_dispose(key, amount, NoDate, 1, method,
                                                lot_numbers)
            created == Appended(db.disposed_lots, disposal.db.disposed_lots)
        IN  disposal.err = ""
            => /\ SumDisposed(created) = amount
               /\ SumDisposed(created)
                      + SumAmounts(Eligible(LotsOf(disposal.db, key), lot_numbers))
                  = SumAmounts(Eligible(LotsOf(db, key), lot_numbers))
               /\ SubSeq(disposal.db.disposed_lots, 1, Len(db.disposed_lots))
                      = db.disposed_lots

\* C4 witness: a disposal split a lot: part of it is in the history and the
\* rest, under the same lot number, is still in the account.
C4_Witness ==
    /\ last = ""
    /\ \E i \in DOMAIN db.disposed_lots :
          /\ db.disposed_lots[i].kind = "Usd"
          /\ db.disposed_lots[i].lot.lot_number \in LotNumbersOf(LotsOf(db, A1Sol))

\* ---- C5
\* C5: the lot counter never goes back, and the lot numbers a step brings into
\* the ledger are numbers the counter had not reached before the step and has
\* passed after it, each carried by one new lot.
C5_LotNumbersNeverReused ==
    [][/\ db'.lot_number >= db.lot_number
       /\ IssuedLotNumbers(db') \ IssuedLotNumbers(db)
              \subseteq db.lot_number .. (db'.lot_number - 1)
       /\ Len(SelectSeq(AllLots(db'), LAMBDA l : l.lot_number >= db.lot_number))
              = Cardinality(IssuedLotNumbers(db') \ IssuedLotNumbers(db))]_vars

\* C5 witness: a command failed after lot numbers had been handed out.
C5_Witness ==
    /\ last # ""
    /\ db.lot_number > MaxLots
    /\ Cardinality(IssuedLotNumbers(db)) >= 2

\* ---- C6
\* C6: a pass of sync over the pending transfers, or over the pending swaps, that
\* runs to its end cancels a record the chain reports no status for if and only
\* if the block height is greater than the record's last_valid_block_height;
\* otherwise the record stays pending.
NoStatusDecidedByHeight(records, st, kept) ==
    \A i \in DOMAIN records :
        LET r == records[i] IN
        StatusAtCommitment(r.signature) = "None"
        => /\ r.signature \in Cancelled(st.fate)
                  <=> block_height > r.last_valid_block_height
           /\ r.signature \in SignaturesOf(kept)
                  <=> block_height <= r.last_valid_block_height
           /\ r.signature \notin Confirmed(st.fate)

C6_ExpiryDecidesCancellation ==
    /\ LET st == process_account_sync_pending_transfers(0)
       IN  st.err = ""
           => NoStatusDecidedByHeight(db.pending_transfers, st, st.db.pending_transfers)
    /\ \A from_amount \in 1..MaxAmount, to_amount \in 1..MaxAmount :
           LET st == process_sync_swaps(0, from_amount, to_amount)
           IN  st.err = ""
               => NoStatusDecidedByHeight(db.pending_swaps, st, st.db.pending_swaps)

\* C6 witness: two pending transfers without a status, one past its last valid
\* block height, which the pass cancels, and one at it, which the pass keeps.
C6_Witness ==
    LET st == process_account_sync_pending_transfers(0) IN
    \E i \in DOMAIN db.pending_transfers, j \in DOMAIN db.pending_transfers :
        LET t1 == db.pending_transfers[i]
            t2 == db.pending_transfers[j]
        IN  /\ StatusAtCommitment(t1.signature) = "None"
            /\ StatusAtCommitment(t2.signature) = "None"
            /\ block_height = t2.last_valid_block_height
            /\ st.err = ""
            /\ t1.signature \in Cancelled(st.fate)
            /\ t2.signature \in SignaturesOf(st.db.pending_transfers)

\* ---- C7
\* C7: a cancellation removes the pending record and nothing else: a pass of
\* sync that confirms nothing, and a wrap or a swap whose send fails, leave every
\* account's balance and lots and the disposal history as they were.
C7_CancelRemovesOnlyThePendingRecord ==
    /\ \A fail_at \in 0..MaxSigs :
           LET st == process_account_sync_pending_transfers(fail_at)
           IN  Confirmed(st.fate) = {}
               => SameLedger(st.db) /\ PendingLess(st.db, Cancelled(st.fate))
    /\ \A fail_at \in 0..MaxSigs :
           LET st == process_sync_swaps(fail_at, 1, 1)
           IN  Confirmed(st.fate) = {}
               => SameLedger(st.db) /\ PendingLess(st.db, Cancelled(st.fate))
    /\ \A fail_at \in 0..MaxSigs, exchange_view \in {"None", "absent", "match"} :
           LET st == process_sync_exchange(NoWithdrawals, fail_at, exchange_view, 1)
           IN  Confirmed(st.fate) = {}
               => SameLedger(st.db) /\ PendingLess(st.db, Cancelled(st.fate))
    /\ (Tracked(db, A1Sol) /\ next_sig <= MaxSigs)
       => \A amount \in {NoAmount} \cup (1..MaxAmount) :
             LET r == process_account_wrap("a1", amount, "FirstInFirstOut",
                                           NoLotNumbers, "expired", TRUE)
             IN  /\ r.fate[next_sig] = {"cancelled"}
                 /\ SameLedger(r.db)
                 /\ PendingLess(r.db, {})
    /\ \A from_token \in Tokens, to_token \in Tokens :
           (/\ from_token # to_token
            /\ Tracked(db, <<"a1", from_token>>)
            /\ next_sig <= MaxSigs)
           => LET r == process_jup_swap("a1", from_token, 1, to_token, 1,
                                        "FirstInFirstOut", FALSE, "expired")
              IN  /\ r.fate[next_sig] = {"cancelled"}
                  /\ SameLedger(r.db)
                  /\ PendingLess(r.db, {})

\* C7 witness: a swap was cancelled because its send failed, in a ledger that
\* holds lots and a disposal history.
C7_Witness ==
    /\ last = "Swap failed"
    /\ fate[next_sig - 1] = {"cancelled"}
    /\ db.disposed_lots # <<>>
    /\ AllLots(db) # <<>>

\* ---- C8
\* C8: confirming a pending transfer of A (the whole source balance when the
\* transfer records no amount) takes lots totalling A out of the source account
\* and puts lots totalling A into the destination account, which is tracked
\* afterwards: the source balance drops by A and the destination's rises by A.
TransferMoved(d, t) ==
    LET A == IF t.amount = NoAmount THEN Balance(db, t.from) ELSE t.amount IN
    /\ Tracked(d, t.to)
    /\ Balance(d, t.from) = Balance(db, t.from) - A
    /\ Balance(d, t.to) = Balance(db, t.to) + A
    /\ Balance(d, t.from) + Balance(d, t.to) = Balance(db, t.from) + Balance(db, t.to)
    /\ SumAmounts(LotsOf(d, t.from)) = SumAmounts(LotsOf(db, t.from)) - A
    /\ SumAmounts(LotsOf(d, t.to)) = SumAmounts(LotsOf(db, t.to)) + A
    /\ SubSeq(LotsOf(d, t.to), 1, Len(LotsOf(db, t.to))) = LotsOf(db, t.to)
    /\ SumAmounts(Appended(LotsOf(db, t.to), LotsOf(d, t.to))) = A
    /\ d.disposed_lots = db.disposed_lots

C8_ConfirmTransferMovesTheAmount ==
    /\ LET st == process_account_sync_pending_transfers(0) IN
       \A i \in DOMAIN db.pending_transfers :
           LET t == db.pending_transfers[i] IN
           Confirmed(st.fate) = {t.signature} => TransferMoved(st.db, t)
    /\ (Tracked(db, A1Sol) /\ next_sig <= MaxSigs)
       => \A amount \in {NoAmount} \cup (1..MaxAmount), method \in Methods :
             LET r == process_account_wrap("a1", amount, method, NoLotNumbers,
                                           "confirmed", TRUE)
             IN  r.err = ""
                 => /\ r.fate[next_sig] = {"confirmed"}
                    /\ TransferMoved(r.db, [amount |-> amount, from |-> A1Sol,
                                            to |-> <<"a1", "wSOL">>])

\* C8 witness: a confirmed transfer created its destination account, which
\* holds what the source account held.
C8_Witness ==
    /\ \E s \in Sigs : fate[s] = {"confirmed"}
    /\ Tracked(db, <<"a2", "SOL">>)
    /\ Balance(db, <<"a2", "SOL">>) > 0
    /\ Balance(db, A1Sol) = 0

\* ---- C9
\* C9: confirming a pending swap with the amounts from_amount and to_amount
\* disposes from-token lots totalling from_amount at the from-token price the
\* pending swap holds, and adds to the to-token account of the same address one
\* lot of to_amount, dated at the confirmation date and priced at the to-token
\* price the pending swap holds; the two balances change by these amounts.
SwapSettled(d, s, from_amount, to_amount) ==
    LET from == <<s.address, s.from_token>>
        to == <<s.address, s.to_token>>
        when == get_signature_date(s.signature)
        created == Appended(db.disposed_lots, d.disposed_lots)
        added == Appended(LotsOf(db, to), LotsOf(d, to))
    IN  /\ SumDisposed(created) = from_amount
        /\ SubSeq(d.disposed_lots, 1, Len(db.disposed_lots)) = db.disposed_lots
        /\ \A k \in DOMAIN created :
               /\ created[k].price = s.from_token_price
               /\ created[k].when = when
               /\ created[k].lot.lot_number \in LotNumbersOf(LotsOf(db, from))
        /\ SumAmounts(LotsOf(d, from)) = SumAmounts(LotsOf(db, from)) - from_amount
        /\ Balance(d, from) = Balance(db, from) - from_amount
        /\ SubSeq(LotsOf(d, to), 1, Len(LotsOf(db, to))) = LotsOf(db, to)
        /\ Len(added) = 1
        /\ added[1].amount = to_amount
        /\ added[1].when = when
        /\ added[1].price = s.to_token_price
        /\ Balance(d, to) = Balance(db, to) + to_amount

C9_ConfirmSwapDisposesAndAddsOneLot ==
    \A from_amount \in 1..MaxAmount, to_amount \in 1..MaxAmount :
        LET st == process_sync_swaps(0, from_amount, to_amount) IN
        \A i \in DOMAIN db.pending_swaps :
            LET s == db.pending_swaps[i] IN
            Confirmed(st.fate) = {s.signature}
            => SwapSettled(st.db, s, from_amount, to_amount)

\* C9 witness: a swap was confirmed: the history holds a lot disposed by a swap
\* and the wSOL account holds a lot acquired by one.
C9_Witness ==
    /\ \E s \in Sigs : fate[s] = {"confirmed"}
    /\ \E i \in DOMAIN db.disposed_lots : db.disposed_lots[i].kind = "Swap"
    /\ \E i \in DOMAIN LotsOf(db, <<"a1", "wSOL">>) :
          LotsOf(db, <<"a1", "wSOL">>)[i].kind = "Swap"

\* ---- C10
\* C10: confirming a pending deposit raises the balance of the deposit account
\* by the deposit's amount and adds to it lots of that amount dated at the day
\* of the deposit's transaction; a pass that only cancels deposits changes no
\* account.
C10_ConfirmDepositCreditsTheDestination ==
    \A price \in Prices :
        /\ LET st == process_sync_exchange(NoWithdrawals, 0, "match", price) IN
           \A i \in DOMAIN db.pending_deposits :
               LET p == db.pending_deposits[i]
                   added == Appended(LotsOf(db, p.to), LotsOf(st.db, p.to))
               IN  Confirmed(st.fate) = {p.signature}
                   => /\ Tracked(st.db, p.to)
                      /\ Balance(st.db, p.to) = Balance(db, p.to) + p.amount
                      /\ SubSeq(LotsOf(st.db, p.to), 1, Len(LotsOf(db, p.to)))
                             = LotsOf(db, p.to)
                      /\ added # <<>>
                      /\ SumAmounts(added) = p.amount
                      /\ \A k \in DOMAIN added :
                             added[k].when = sig_date[p.signature]
        /\ \A fail_at \in 0..MaxSigs, exchange_view \in {"None", "absent", "mismatch"} :
               LET st == process_sync_exchange(NoWithdrawals, fail_at, exchange_view, price) IN
               /\ Confirmed(st.fate) = {}
               /\ st.db.accounts = db.accounts

\* C10 witness: one deposit was confirmed, its lot dated before the day of the
\* pass that confirmed it, and another deposit was cancelled.
C10_Witness ==
    /\ \E s \in Sigs : fate[s] = {"confirmed"}
    /\ \E s \in Sigs : fate[s] = {"cancelled"}
    /\ \E i \in DOMAIN LotsOf(db, <<"a2", "SOL">>) :
          /\ LotsOf(db, <<"a2", "SOL">>)[i].kind = "Transaction"
          /\ LotsOf(db, <<"a2", "SOL">>)[i].when < block_height

\* ---- C11
\* The disposal records of exchange withdrawals
WithdrawalDisposals(d) ==
    SelectSeq(d.disposed_lots, LAMBDA r : r.kind = "Withdrawal")

\* C11: a withdrawal disposes lots only at its confirmation.  Requesting a
\* withdrawal changes no account and no disposal record; a pass over the
\* pending withdrawals confirms only withdrawals the exchange reports completed,
\* appends disposal records only for those, and when it confirms none (the
\* withdrawals stay pending or are cancelled) leaves every account's balance and
\* lots and the disposal history as they were; no withdrawal disposal exists
\* while no withdrawal has been confirmed.
C11_WithdrawalDisposesOnlyAtConfirmation ==
    /\ \A amount \in {NoAmount} \cup (1..MaxAmount), method \in Methods,
          lot_numbers \in LotNumberChoices, requested \in BOOLEAN, tag \in Sigs :
           LET r == process_exchange_withdraw("SOL", "a1", amount, "a2", method,
                                              lot_numbers, requested, tag, 0)
           IN  /\ r.db.accounts = db.accounts
               /\ r.db.disposed_lots = db.disposed_lots
    /\ \A withdrawal_view \in WithdrawalViews :
           LET st == process_sync_exchange(withdrawal_view, 0, "absent", 1)
               created == Appended(db.disposed_lots, st.db.disposed_lots)
               pending == TagsOf(db.pending_withdrawals)
           IN  /\ Confirmed(st.fate)
                     \subseteq {tag \in pending : withdrawal_view[tag] = "completed"}
               /\ Cancelled(st.fate)
                     \subseteq {tag \in pending : withdrawal_view[tag] = "cancelled"}
               /\ TagsOf(st.db.pending_withdrawals)
                     = pending \ (Confirmed(st.fate) \cup Cancelled(st.fate))
               /\ \A k \in DOMAIN created : created[k].kind = "Withdrawal"
               /\ Confirmed(st.fate) = {}
                  => /\ st.db.accounts = db.accounts
                     /\ st.db.disposed_lots = db.disposed_lots
               /\ SumDisposed(created)
                     = SumAmounts(SelectSeq(db.pending_withdrawals,
                                            LAMBDA p : p.tag \in Confirmed(st.fate)))
    /\ WithdrawalDisposals(db) # <<>> => \E tag \in Sigs : "confirmed" \in fate[tag]

\* C11 witness: one withdrawal was cancelled and left no disposal, another was
\* confirmed and disposed lots of the exchange's account.
C11_Witness ==
    /\ \E tag \in Sigs : fate[tag] = {"cancelled"}
    /\ \E tag \in Sigs : fate[tag] = {"confirmed"}
    /\ Len(WithdrawalDisposals(db)) = 1
    /\ db.pending_withdrawals = <<>>

\* ---- C12
\* C12: in every reachable state each lot_number is held by at most one tracked
\* account.  A partial transfer refutes it: the lot is split, the part that
\* stays and the part that moves carry the same lot_number, and the two parts
\* are then held by the source and by the destination account.
C12_LotNumberHeldByOneAccount ==
    \A lot_number \in LotNumbersOf(AllLots(db)) :
        Cardinality(Holders(db, lot_number)) <= 1

\* ---- C13
\* C13: swapping lots a and b exchanges the accounts that hold them, each lot
\* keeping its lot_number, its acquisition and its amount and no other lot
\* changing; when either number is unknown the swap fails with NotFound and
\* changes nothing.
LotSet(d) == {AllLots(d)[i] : i \in DOMAIN AllLots(d)}

LotNumbersUsed == 1..(MaxLots + 1)

C13_SwapExchangesOwnership ==
    \A a \in LotNumbersUsed, b \in LotNumbersUsed :
        LET r == process_account_lot_swap(a, b) IN
        IF Holders(db, a) = {} \/ Holders(db, b) = {}
        THEN r.err = "NotFound" /\ r.db = db
        ELSE /\ r.err = ""
             /\ Holders(r.db, a) = Holders(db, b)
             /\ Holders(r.db, b) = Holders(db, a)
             /\ LotSet(r.db) = LotSet(db)
             /\ Len(AllLots(r.db)) = Len(AllLots(db))
             /\ \A key \in Keys :
                    /\ Tracked(r.db, key) <=> Tracked(db, key)
                    /\ RemoveLot(RemoveLot(LotsOf(r.db, key), a), b)
                           = RemoveLot(RemoveLot(LotsOf(db, key), a), b)
             /\ r.db.disposed_lots = db.disposed_lots

\* C13 witness: two lots of different amounts are held by different accounts,
\* and the swap puts each, unchanged, in the other's account.
C13_Witness ==
    \E a \in LotNumbersUsed, b \in LotNumbersUsed :
        /\ Holders(db, a) # {} /\ Holders(db, b) # {}
        /\ Holder(db, a) # Holder(db, b)
        /\ LotOf(AllLots(db), a).amount # LotOf(AllLots(db), b).amount
        /\ LET r == process_account_lot_swap(a, b)
           IN  /\ Holder(r.db, a) = Holder(db, b)
               /\ LotOf(AllLots(r.db), a) = LotOf(AllLots(db), a)

\* ---- C14
\* C14: moving lot n to an address fails and changes nothing when no account of
\* the lot's token is tracked at the address; otherwise the lot leaves its
\* account and is held, unchanged, by the account at the address.
C14_MoveNeedsATrackedDestination ==
    \A n \in LotNumbersUsed, to_address \in Addresses :
        Holders(db, n) # {}
        => LET from == Holder(db, n)
               to == <<to_address, from[2]>>
               r == process_account_lot_move(n, to_address)
           IN  IF ~Tracked(db, to)
               THEN r.err # "" /\ r.db = db
               ELSE /\ r.err = ""
                    /\ Holders(r.db, n) = {to}
                    /\ LotOf(LotsOf(r.db, to), n) = LotOf(LotsOf(db, from), n)
                    /\ LotSet(r.db) = LotSet(db)
                    /\ Len(AllLots(r.db)) = Len(AllLots(db))
                    /\ r.db.disposed_lots = db.disposed_lots

\* C14 witness: a move was refused, and a lot acquired by a1 is held by a2.
C14_Witness ==
    /\ last = "NotFound"
    /\ LotsOf(db, <<"a2", "SOL">>) # <<>>
    /\ LotsOf(db, A1Sol) # <<>>
    /\ \E n \in LotNumbersUsed, to_address \in Addresses :
          /\ Holders(db, n) # {}
          /\ ~Tracked(db, <<to_address, Holder(db, n)[2]>>)

\* ---- C15
\* C15: deleting a lot number that has a disposal record fails, and neither the
\* live lots of that number nor the disposal history change; a command given
\* only that number changes nothing at all.
C15_DisposedLotIsNotDeleted ==
    \A n \in DisposedLotNumbers(db) :
        /\ LET r == process_account_lot_delete(<<n>>, TRUE)
           IN  r.err # "" /\ r.db = db
        /\ \A m \in LotNumbersUsed \ {n} :
               LET r == process_account_lot_delete(<<m, n>>, TRUE)
               IN  /\ r.err # ""
                   /\ r.db.disposed_lots = db.disposed_lots
                   /\ \A key \in Keys :
                          RemoveLot(LotsOf(r.db, key), m) = RemoveLot(LotsOf(db, key), m)

\* C15 witness: the deletion of a partly disposed lot, which is still held by
\* an account, was refused.
C15_Witness ==
    /\ last = "LotDisposed"
    /\ DisposedLotNumbers(db) \cap LotNumbersOf(AllLots(db)) # {}

\* ---- C19
\* C19: removing a tracked account that holds lots fails and leaves the store as
\* it was, unless the caller proceeds even if lots exist; an account without
\* lots, and one with lots under that override, is removed.
C19_RemoveRefusedWhileLotsRemain ==
    \A key \in DOMAIN db.accounts :
        LET refused == process_account_remove(key, TRUE, FALSE)
            forced == process_account_remove(key, TRUE, TRUE)
        IN  /\ forced.err = ""
            /\ ~Tracked(forced.db, key)
            /\ \A other \in DOMAIN db.accounts \ {key} :
                   /\ Tracked(forced.db, other)
                   /\ get_account(forced.db, other) = get_account(db, other)
            /\ IF get_account(db, key).lots # <<>>
               THEN refused.err # "" /\ refused.db = db
               ELSE refused = forced

\* C19 witness: a removal was refused for an account that holds lots, while
\* another account has been removed.
C19_Witness ==
    /\ last = "is not empty"
    /\ \E key \in DOMAIN db.accounts : get_account(db, key).lots # <<>>
    /\ \E key \in Keys : ~Tracked(db, key)

\* ---- C16
\* The amount held under a lot number in a sequence of lots, or of disposed lots
AmountOf(lots, lot_number) ==
    LET Numbered(l) == l.lot_number = lot_number IN SumAmounts(SelectSeq(lots, Numbered))

RECURSIVE DisposedAmountOf(_, _)
DisposedAmountOf(records, lot_number) ==
    IF records = <<>> THEN 0
    ELSE (IF Head(records).lot.lot_number = lot_number THEN Head(records).lot.amount ELSE 0)
         + DisposedAmountOf(Tail(records), lot_number)

\* The order the claim gives each method: the date or the price, ascending or
\* descending, then the lot_number ascending
ComesFirst(method, a, b) ==
    LET ka == IF method \in {"FirstInFirstOut", "LastInFirstOut"} THEN a.when ELSE a.price
        kb == IF method \in {"FirstInFirstOut", "LastInFirstOut"} THEN b.when ELSE b.price
        ascending == method \in {"FirstInFirstOut", "LowestBasis"}
    IN  \/ ka # kb /\ (ascending <=> ka < kb)
        \/ ka = kb /\ a.lot_number < b.lot_number

\* C16: a disposal consumes the lots in the selection method's total order
\* (FIFO earliest date first, LIFO latest date first, equal keys by ascending
\* lot_number): a lot gives up amount only when every lot before it in the order
\* is consumed whole, the amounts given up add up to the requested amount and
\* are what the disposal records hold, so the outcome is determined.
C16_LotsConsumedInMethodOrder ==
    \A key \in DOMAIN db.accounts, amount \in 1..MaxAmount, method \in Methods :
        LET before == LotsOf(db, key)
            r == process_account_dispose(key, amount, NoDate, 1, method, NoLotNumbers)
            after == LotsOf(r.db, key)
            created == Appended(db.disposed_lots, r.db.disposed_lots)
            Taken(n) == AmountOf(before, n) - AmountOf(after, n)
        IN  /\ SumAmounts(before) >= amount <=> r.err = ""
            /\ r.err = ""
               => /\ SumAmounts(before) - SumAmounts(after) = amount
                  /\ LotNumbersOf(after) \subseteq LotNumbersOf(before)
                  /\ \A i \in DOMAIN before :
                         /\ Taken(before[i].lot_number) >= 0
                         /\ Taken(before[i].lot_number)
                               = DisposedAmountOf(created, before[i].lot_number)
                         /\ \A j \in DOMAIN before :
                                /\ ComesFirst(method, before[i], before[j])
                                /\ Taken(before[j].lot_number) > 0
                                => Taken(before[i].lot_number) = before[i].amount
                  /\ \A k \in DOMAIN created :
                         \E i \in DOMAIN before :
                            [created[k].lot EXCEPT !.amount = 0]
                               = [before[i] EXCEPT !.amount = 0]

\* C16 witness: after a disposal, an account holds two lots of one date and an
\* earlier lot; LIFO takes from the lower-numbered lot of the two and FIFO from
\* the earlier lot.
C16_Witness ==
    /\ db.disposed_lots # <<>>
    /\ \E key \in DOMAIN db.accounts :
          LET before == LotsOf(db, key)
              lifo == process_account_dispose(key, 1, NoDate, 1, "LastInFirstOut", NoLotNumbers)
              fifo == process_account_dispose(key, 1, NoDate, 1, "FirstInFirstOut", NoLotNumbers)
          IN  \E i \in DOMAIN before, j \in DOMAIN before, e \in DOMAIN before :
                 /\ before[i].when = before[j].when
                 /\ before[i].lot_number < before[j].lot_number
                 /\ before[e].when < before[i].when
                 /\ AmountOf(LotsOf(lifo.db, key), before[i].lot_number) = before[i].amount - 1
                 /\ AmountOf(LotsOf(lifo.db, key), before[j].lot_number) = before[j].amount
                 /\ AmountOf(LotsOf(fifo.db, key), before[e].lot_number) = before[e].amount - 1

\* ---- C17
\* One or two lot numbers, as --lot supplies them
SuppliedLotNumbers ==
    {{m, n} : m \in LotNumbersUsed, n \in LotNumbersUsed}

\* C17: with explicit lot numbers a disposal fails with LotNotFound when a
\* supplied number is not in the pool, fails with InsufficientLots when the
\* supplied lots total less than the amount, and otherwise takes the amount
\* from the supplied lots only; in every case a lot whose number was not
\* supplied is unchanged.
C17_OnlySuppliedLotsAreTouched ==
    \A key \in DOMAIN db.accounts, amount \in 1..MaxAmount, method \in Methods,
       supplied \in SuppliedLotNumbers :
        LET before == LotsOf(db, key)
            r == process_account_dispose(key, amount, NoDate, 1, method,
                                         SomeLotNumbers(supplied))
            after == LotsOf(r.db, key)
            created == Appended(db.disposed_lots, r.db.disposed_lots)
            Supplied(l) == l.lot_number \in supplied
            NotSupplied(l) == l.lot_number \notin supplied
        IN  /\ SelectSeq(after, NotSupplied) = SelectSeq(before, NotSupplied)
            /\ \A k \in DOMAIN created : created[k].lot.lot_number \in supplied
            /\ IF ~(supplied \subseteq LotNumbersOf(before))
               THEN r.err = "LotNotFound" /\ r.db = db
               ELSE IF SumAmounts(SelectSeq(before, Supplied)) < amount
               THEN r.err = "InsufficientLots" /\ r.db = db
               ELSE /\ r.err = ""
                    /\ SumAmounts(SelectSeq(before, Supplied))
                          - SumAmounts(SelectSeq(after, Supplied)) = amount
                    /\ SumDisposed(created) = amount

\* C17 witness: a disposal was refused with InsufficientLots, and in an account
\* holding several lots, naming a lot the method would not choose first takes
\* the amount from that lot.
C17_Witness ==
    /\ last = "InsufficientLots"
    /\ \E key \in DOMAIN db.accounts, n \in LotNumbersUsed :
          LET before == LotsOf(db, key)
              r == process_account_dispose(key, 1, NoDate, 1, "FirstInFirstOut",
                                           SomeLotNumbers({n}))
              free == process_account_dispose(key, 1, NoDate, 1, "FirstInFirstOut",
                                              NoLotNumbers)
          IN  /\ r.err = ""
              /\ AmountOf(LotsOf(r.db, key), n) = AmountOf(before, n) - 1
              /\ AmountOf(LotsOf(free.db, key), n) = AmountOf(before, n)
              /\ SumAmounts(before) >= MaxAmount

\* ---- C18
\* C18: adding an account under a key that is already tracked fails with
\* AlreadyExists and leaves the tracked account (its balance, lots, epoch and
\* no-sync flag) and every other account as they were.
C18_AddExistingAccountFails ==
    \A key \in Keys, when \in WhenChoices, price \in Prices, income \in BOOLEAN,
       no_sync \in BOOLEAN, amount \in Amounts :
        Tracked(db, key)
        => LET r == process_account_add(key, when, price, income, no_sync, amount)
           IN  /\ r.err = "AlreadyExists"
               /\ r.db.accounts = db.accounts
               /\ r.db.disposed_lots = db.disposed_lots

\* C18 witness: an add was refused for an account that holds lots.
C18_Witness ==
    /\ last = "AlreadyExists"
    /\ \E key \in DOMAIN db.accounts : get_account(db, key).lots # <<>>

\* ---- C20
\* C20: a holding is long-term exactly when the disposal date less the
\* acquisition date is at least 365 days: 365 days is long-term, 364 is not.
C20_LongTermFrom365Days ==
    calc.disposal # NoDate
    => LET hold_time == calc.disposal - calc.acquisition
       IN  /\ hold_time = 365 => calc.long_term
           /\ hold_time = 364 => ~calc.long_term
           /\ calc.long_term <=> hold_time >= 365

\* C20 witness: a holding of exactly 365 days was classified long-term.
C20_Witness ==
    /\ calc.disposal # NoDate
    /\ calc.disposal - calc.acquisition = 365
    /\ calc.long_term

\* ---- C23
\* C23: no two pending records have the same signature.  A command that
\* records a pending operation under a signature that is already pending adds
\* no record, leaves the store as it was, and ends with InvariantViolation.
C23_PendingSignaturesUnique ==
    /\ Cardinality(PendingSignatures(db)) = Len(AllPending(db))
    /\ \A existing_signature \in PendingSignatures(db) :
          /\ \A from_address \in Addresses, into_address \in Addresses :
                LET r == process_account_merge_existing(from_address, into_address,
                                                        existing_signature)
                IN  r.err = "InvariantViolation" /\ r.db = db
          /\ \A from_token \in Tokens, to_token \in Tokens :
                Tracked(db, <<"a1", from_token>>)
                => LET r == process_jup_swap_existing("a1", from_token, 1, to_token, 1,
                                                      "FirstInFirstOut", existing_signature)
                   IN  r.err = "InvariantViolation" /\ r.db = db

\* C23 witness: a command named a signature that was pending and was refused,
\* and the signature's one record is still pending next to another record.
C23_Witness ==
    /\ last = "InvariantViolation"
    /\ Len(AllPending(db)) = 2
    /\ \E s \in PendingSignatures(db) : "refused" \in fate[s]

\* ---- C26
\* C26: process_sync_exchange leaves a pending deposit pending while the chain
\* has no status for its signature and the block height has not passed its
\* last_valid_block_height; a deposit whose transaction the chain does not
\* report as failed is cancelled only at a block height above its
\* last_valid_block_height.
C26_DepositCancelledOnlyOnFailureOrExpiry ==
    \A fail_at \in 0..MaxSigs, exchange_view \in {"None", "absent", "mismatch", "match"} :
        \E st \in {process_sync_exchange(NoWithdrawals, fail_at, exchange_view, 1)} :
            \A i \in DOMAIN db.pending_deposits :
                LET p == db.pending_deposits[i] IN
                /\ sig_status[p.signature] = "none"
                   /\ block_height <= p.last_valid_block_height
                   => /\ p.signature \in SignaturesOf(st.db.pending_deposits)
                      /\ p.signature \notin Cancelled(st.fate)
                /\ p.signature \in Cancelled(st.fate) /\ sig_status[p.signature] # "err"
                   => block_height > p.last_valid_block_height

\* ---- C24
\* C24: no run of process_account_sync changes the last_update_balance, the
\* lots or the last_update_epoch of an account that is flagged no-sync.
C24_NoSyncAccountUntouched ==
    [][\A key \in Keys :
          /\ Tracked(db, key)
          /\ get_account(db, key).no_sync
          /\ Tracked(db', key)
          => get_account(db', key) = get_account(db, key)]_vars

\* ---- C25
\* C25: the last_update_epoch of a tracked account never decreases, whatever
\* the options of the process_account_sync runs and whatever the
\* last_update_epoch of the other accounts.
C25_LastUpdateEpochNeverDecreases ==
    [][\A key \in Keys :
          Tracked(db, key) /\ Tracked(db', key)
          => get_account(db', key).last_update_epoch
                 >= get_account(db, key).last_update_epoch]_vars

\* ---- C27
\* C27: process_account_sync_pending_transfers and process_sync_swaps confirm
\* a pending record only when the chain reports its signature as succeeded,
\* and cancel the record when the chain reports the signature as failed: no
\* record is confirmed on a failed or unknown status, none is cancelled on a
\* successful status.
C27_ConfirmOnSuccessCancelOnFailure ==
    \A fail_at \in 0..MaxSigs :
        \E t \in {process_account_sync_pending_transfers(fail_at)},
           s \in {process_sync_swaps(fail_at, 1, 1)} :
            \A signature \in Sigs :
                /\ signature \in Confirmed(t.fate)
                   => /\ sig_status[signature] = "ok"
                      /\ signature \notin PendingSignatures(t.db)
                /\ signature \in Confirmed(s.fate)
                   => /\ sig_status[signature] = "ok"
                      /\ signature \notin PendingSignatures(s.db)
                /\ signature \in Cancelled(t.fate) \cup Cancelled(s.fate)
                   => sig_status[signature] # "ok"
                /\ sig_status[signature] = "err" /\ t.err = ""
                   /\ signature \in SignaturesOf(db.pending_transfers)
                   => /\ signature \in Cancelled(t.fate)
                      /\ signature \notin PendingSignatures(t.db)
                /\ sig_status[signature] = "err" /\ s.err = ""
                   /\ signature \in SignaturesOf(db.pending_swaps)
                   => /\ signature \in Cancelled(s.fate)
                      /\ signature \notin PendingSignatures(s.db)
                /\ sig_status[signature] # "ok"
                   => signature \notin Confirmed(t.fate) \cup Confirmed(s.fate)

\* C27 witness: one record was confirmed, its signature succeeded on the chain,
\* and another was cancelled, its signature failed on the chain.
C27_Witness ==
    \E a \in Sigs, b \in Sigs :
        /\ "confirmed" \in fate[a] /\ sig_status[a] = "ok"
        /\ "cancelled" \in fate[b] /\ sig_status[b] = "err"
        /\ PendingSignatures(db) = {}

\* ---- C28
\* C28: send_transaction_until_expired returns true only when
\* confirm_transaction has reported the signature confirmed, returns false
\* only when get_epoch_info has reported a block height strictly above
\* last_valid_block_height, and never submits the transaction after it has
\* observed such a height.
C28_SendReturnsOnConfirmOrExpiry ==
    /\ send.returned = "true" => sig_status[send.signature] = "ok"
    /\ send.returned = "false"
       => send.expired_seen /\ block_height > send.last_valid_block_height
    /\ send.expired_seen => send.returned = "false"
    /\ ~send.sent_after_expiry

\* C28 witness: the loop submitted the transaction and later returned false.
C28_Witness ==
    /\ send.pc = "done"
    /\ send.returned = "false"
    /\ send.attempted
    /\ send.in_flight

\* ---- C29
\* C29: whenever send_transaction_until_expired has returned false, the
\* transaction is not confirmed on the chain.
C29_FalseMeansNotLanded ==
    send.returned = "false" => sig_status[send.signature] # "ok"

\* ---- C30
\* C30: once started, the send loop ends, given that blocks keep being
\* produced past last_valid_block_height and get_epoch_info answers now and
\* then; also when every send and every confirmation query fails.
C30_SendLoopTerminates == (send.pc # "idle") ~> (send.pc = "done")

\* C30 witness: the loop ended although no send reached the cluster and the
\* transaction never landed.
C30_Witness ==
    /\ send.pc = "done"
    /\ send.attempted
    /\ ~send.in_flight
    /\ sig_status[send.signature] = "none"

\* ---- C21
\* C21: an account holds lot 1 (100 tokens at $1, acquired on day 0) and lot 2
\* (50 tokens at $2, acquired on day 400).  Disposing 120 tokens first-in
\* first-out at $3 on day 401 appends exactly two disposed lots: 100 tokens of
\* lot 1 (basis $100, gain $200, long-term) and 20 tokens of lot 2 (basis $40,
\* gain $20, short-term); the account keeps a single lot of 30 tokens at $2
\* and its balance is 30 tokens.  A token is ten base units here.
C21_ExampleDisposal ==
    LET lot1 == Lot(1, 0, 1, "Fiat", 1000)
        lot2 == Lot(2, 400, 2, "Fiat", 500)
        held == LotsOf(db, A1Sol)
    IN  /\ Len(held) = 2
        /\ {[held[i] EXCEPT !.kind = "Fiat"] : i \in DOMAIN held} = {lot1, lot2}
        /\ Balance(db, A1Sol) = 1500
        => LET r == process_account_dispose(A1Sol, 1200, 401, 3, "FirstInFirstOut",
                                            NoLotNumbers)
               d == Appended(db.disposed_lots, r.db.disposed_lots)
           IN  /\ r.err = ""
               /\ Len(d) = 2
               /\ d[1].lot.lot_number = 1 /\ d[1].lot.amount = 1000
               /\ d[2].lot.lot_number = 2 /\ d[2].lot.amount = 200
               /\ IsWhole(ui_amount("SOL", d[1].lot.amount), 100)
               /\ IsWhole(ui_amount("SOL", d[2].lot.amount), 20)
               /\ IsWhole(basis(d[1].lot, "SOL"), 100)
               /\ IsWhole(basis(d[2].lot, "SOL"), 40)
               /\ IsWhole(format_disposed_lot("SOL", d[1]).cap_gain, 200)
               /\ IsWhole(format_disposed_lot("SOL", d[2]).cap_gain, 20)
               /\ format_disposed_lot("SOL", d[1]).long_term_cap_gain
               /\ ~format_disposed_lot("SOL", d[2]).long_term_cap_gain
               /\ Len(LotsOf(r.db, A1Sol)) = 1
               /\ [LotsOf(r.db, A1Sol)[1] EXCEPT !.kind = "Fiat"] = [lot2 EXCEPT !.amount = 300]
               /\ Balance(r.db, A1Sol) = 300
               /\ IsWhole(ui_amount("SOL", Balance(r.db, A1Sol)), 30)

\* C21 witness: the disposal of the example was recorded: the history ends
\* with 100 tokens of lot 1 and 20 tokens of lot 2, disposed on day 401 at $3,
\* and the account is left with 30 tokens of lot 2.
C21_Witness ==
    /\ last = ""
    /\ Len(db.disposed_lots) = 2
    /\ db.disposed_lots[1].lot = Lot(1, 0, 1, "Fiat", 1000)
    /\ db.disposed_lots[2].lot = Lot(2, 400, 2, "Fiat", 200)
    /\ db.disposed_lots[1].when = 401 /\ db.disposed_lots[2].price = 3
    /\ LotsOf(db, A1Sol) = <<Lot(2, 400, 2, "Fiat", 300)>>
    /\ Balance(db, A1Sol) = 300

\* ---- C22
\* C22: at most one instance of the program holds the store's exclusive lock,
\* and only that instance has the store open or mutates it; an instance that
\* finds the lock taken keeps retrying and gets past the lock only by
\* acquiring it.
C22_OneInstanceHoldsStore ==
    /\ Cardinality({i \in Instances : lock.pc[i] \in {"locked", "running"}}) <= 1
    /\ \A i \in Instances : lock.pc[i] \in {"locked", "running"} => lock.holder = i
    /\ \A i \in Instances : lock.pc[i] \in {"idle", "locking", "waiting"} => lock.holder # i
    /\ \A i \in Instances : lock.pc[i] = "exited" => i \in lock.held /\ lock.holder # i
    /\ ~lock.unlocked_access

\* C22 witness: a second instance runs on the store after the first one, which
\* mutated it, has ended, while a third one is waiting for the lock.
C22_Witness ==
    \E i, j, k \in Instances :
        /\ lock.pc[i] = "exited"
        /\ lock.pc[j] = "running"
        /\ lock.pc[k] = "waiting"
        /\ lock.held = {i, j}
        /\ lock.writes > 0

\* ---- C37
\* C37: over any sequence of process_account_sync runs an account holds at
\* most one lot for the inflation reward of an epoch.  (The reward lot of
\* epoch e is dated e + 1.)
C37_RewardRecordedOncePerEpoch ==
    \A key \in Keys :
        LET lots == LotsOf(db, key) IN
        \A i \in DOMAIN lots, j \in DOMAIN lots :
            /\ i # j
            /\ lots[i].kind = "EpochReward"
            /\ lots[j].kind = "EpochReward"
            => lots[i].when # lots[j].when

\* ---- C40
\* C40: process_account_sync with max_epochs_to_process = 0 and
\* force_rescan_balances computes its stop epoch without an unsigned underflow
\* and goes through no reward epoch: the run does not abort and adds no lot.
C40_ZeroEpochsForcedRescan ==
    [][\A rewarded \in {NoAddress, "a1"}, overflow_checks \in BOOLEAN :
          ProcessAccountSync(NoAddress, 0, FALSE, TRUE, 0, rewarded, A1Sol, 0, TRUE, 1,
                             overflow_checks)
          => /\ last' # "panic"
             /\ db'.lot_number = db.lot_number]_vars

\* ---- C31
\* C31: every handler that submits a transaction writes the pending record
\* before the transaction is first sent: while the transaction is being sent its
\* signature is pending in the store, and no signature is on chain without a
\* pending record having been written for it.
C31_RecordedBeforeSent ==
    /\ send.pc \notin {"idle", "done"} /\ (send.attempted \/ send.in_flight)
       => send.signature \in PendingSignatures(db)
    /\ send.pc = "send" => send.signature \in PendingSignatures(db)
    /\ \A signature \in Sigs :
          sig_status[signature] # "none" => "recorded" \in fate[signature]

\* C31 witness: a transaction the tool sent is on chain, its record written
\* before, and the handler has returned.
C31_Witness ==
    /\ send.pc = "idle"
    /\ \E signature \in Sigs :
          /\ sig_status[signature] = "ok"
          /\ "recorded" \in fate[signature]
          /\ signature \in SignaturesOf(db.pending_swaps \o db.pending_deposits)

\* ---- C32
\* The pending deposit at position i of the store is confirmed on chain
ChainConfirmed(i) == sig_status[db.pending_deposits[i].signature] = "ok"

\* C32: when a pending deposit's transaction is confirmed on chain and the
\* exchange has no deposit history, the pass removes the deposit through
\* drop_deposit if its token is fiat-fungible, and otherwise aborts with the
\* deposit still pending; no account changes.
C32_BlindDepositDroppedOnlyForFiat ==
    \E st \in {process_sync_exchange(NoWithdrawals, 0, "None", 1)} :
    \A i \in DOMAIN db.pending_deposits :
        LET p == db.pending_deposits[i]
            reached == \A j \in 1..(i - 1) :
                          ChainConfirmed(j) => fiat_fungible(db.pending_deposits[j].to[2])
        IN  ChainConfirmed(i) /\ reached
            => /\ st.db.accounts = db.accounts
               /\ IF fiat_fungible(p.to[2])
                  THEN /\ p.signature \notin SignaturesOf(st.db.pending_deposits)
                       /\ "dropped" \in st.fate[p.signature]
                  ELSE /\ st.err = "panic"
                       /\ p.signature \in SignaturesOf(st.db.pending_deposits)
                       /\ st.fate[p.signature] = fate[p.signature]

\* C32 witness: a pass over two chain-confirmed deposits dropped the one of the
\* fiat-fungible token and stopped at the one of SOL, which is still pending.
C32_Witness ==
    /\ last = "panic"
    /\ \E s \in Sigs : fate[s] = {"dropped"}
    /\ \E i \in DOMAIN db.pending_deposits :
          /\ ChainConfirmed(i)
          /\ ~fiat_fungible(db.pending_deposits[i].to[2])

\* ---- C33
\* C33: a chain-confirmed pending deposit is confirmed in the ledger only if
\* the exchange lists a deposit of its signature whose amount is fewer than 10
\* units from the pending amount; when the listed amount is 10 or more units
\* away, or the exchange lists no such deposit, the deposit stays pending and
\* no account changes.
C33_DepositConfirmedOnlyOnMatchingAmount ==
    \A exchange_view \in {"None", "absent", "stolen", "near", "mismatch", "match"} :
    \E st \in {process_sync_exchange(NoWithdrawals, 0, exchange_view, 1)} :
    \A i \in DOMAIN db.pending_deposits :
        LET p == db.pending_deposits[i]
            listed == deposit_info_amount(exchange_view, p)
            close == /\ listed # NoAmount
                     /\ listed - p.amount < 10
                     /\ p.amount - listed < 10
        IN  ChainConfirmed(i)
            => /\ p.signature \in Confirmed(st.fate) => close
               /\ exchange_view # "None" /\ ~close
                  => /\ p.signature \in SignaturesOf(st.db.pending_deposits)
                     /\ st.db.accounts = db.accounts
                     /\ st.err = ""

\* C33 witness: a deposit was confirmed in the ledger, the destination holding
\* its lot, while another chain-confirmed deposit is pending.
C33_Witness ==
    /\ \E s \in Sigs : fate[s] = {"confirmed"}
    /\ LotsOf(db, <<"a2", "SOL">>) # <<>>
    /\ \E i \in DOMAIN db.pending_deposits : ChainConfirmed(i)

\* ---- C34
\* The amount of a token the ledger tracks between two accounts: their
\* balances and the amounts of the pending deposits from the one to the other
TrackedAmount(d, from, to) ==
    Balance(d, from) + Balance(d, to)
        + SumAmounts(SelectSeq(d.pending_deposits,
                               LAMBDA p : p.from = from /\ p.to = to))

\* C34: recording and then confirming an exchange deposit of amount A takes A
\* from the source account and gives A to the destination account, and the
\* tracked amount (source, destination and pending deposits) is the same
\* before the record, while the deposit is pending, and after the confirm.
C34_DepositConservesTrackedAmount ==
    \A token \in {"SOL", "USDC"}, amount \in 1..MaxAmount :
        LET from == <<"a1", token>>
            deposit == <<"a2", token>>
            d1 == add_exchange_deposit_address_to_db(db, deposit)
            recorded == record_deposit(d1, next_sig, block_height + ValidBlocks, from,
                                       amount, "exchange", deposit, "FirstInFirstOut",
                                       NoLotNumbers)
            confirmed == confirm_deposit(recorded.db, next_sig, today, 1)
        IN  /\ Tracked(db, from)
            /\ Balance(db, from) >= amount
            /\ next_sig <= MaxSigs
            /\ recorded.err = ""
            => /\ Balance(confirmed.db, from) = Balance(db, from) - amount
               /\ Balance(confirmed.db, deposit) = Balance(db, deposit) + amount
               /\ TrackedAmount(recorded.db, from, deposit) = TrackedAmount(db, from, deposit)
               /\ TrackedAmount(confirmed.db, from, deposit) = TrackedAmount(db, from, deposit)

\* ---- C38
\* The pending transfers and swaps of a store
TransfersAndSwaps(d) == d.pending_transfers \o d.pending_swaps

\* C38: under repeated sync runs, with blocks being produced and the RPC
\* queries succeeding, every pending transfer and every pending swap is
\* eventually removed from the pending set, the records made from an existing
\* signature with last_valid_block_height 0 included.  In the form one run
\* refutes: once the block height is above the last_valid_block_height of every
\* record, a sync run whose queries all succeed leaves no transfer and no swap
\* pending.  (With no other command in between, every later run does what this
\* one does.)
C38_PendingEventuallySettled ==
    \E t \in {process_account_sync_pending_transfers(0)} :
    \E s \in {process_sync_swaps(0, 1, 1)} :
        (\A i \in DOMAIN TransfersAndSwaps(db) :
             block_height > TransfersAndSwaps(db)[i].last_valid_block_height)
        => /\ t.db.pending_transfers = <<>>
           /\ s.db.pending_swaps = <<>>


\* ---- C35
\* C35: when the transaction of a split or of a redelegation expires without
\* having landed, the handler cancels the pending transfer and removes the
\* destination account it had added: the tracked accounts with their balances
\* and lots are what they were before the command, no pending record of the
\* transaction remains, and the command fails.
C35_ExpiredSplitRestoresStore ==
    next_sig <= MaxSigs =>
    \A from_address \in Addresses :
    \A into_address \in Addresses \ {from_address},
       amount_arg \in {NoAmount} \cup 1..MaxAmount, method \in Methods,
       lot_numbers \in LotNumberChoices :
        (/\ Tracked(db, <<from_address, "SOL">>)
         /\ ~Tracked(db, <<into_address, "SOL">>)
         /\ next_sig \notin PendingSignatures(db))
        => /\ \E r \in {process_account_split(from_address, into_address, amount_arg,
                                              method, lot_numbers, "expired", TRUE)} :
                 /\ r.err = "Split failed"
                 /\ r.db.accounts = db.accounts
                 /\ next_sig \notin PendingSignatures(r.db)
                 /\ AllPending(r.db) = AllPending(db)
           /\ \E r \in {process_account_redelegate(from_address, into_address, method,
                                                   "expired", TRUE)} :
                 /\ r.err \in {"Redelegate failed", "insufficient balance"}
                 /\ r.db.accounts = db.accounts
                 /\ next_sig \notin PendingSignatures(r.db)
                 /\ AllPending(r.db) = AllPending(db)

\* A redelegation has failed on an expired transaction, and the source is
\* still tracked with its lots while the destination is not.
C35_Witness ==
    /\ last = "Redelegate failed"
    /\ \E s \in Sigs : fate[s] = {"cancelled"} /\ sig_status[s] = "none"
    /\ \E from \in {A1Sol, A2Sol} :
          /\ Tracked(db, from)
          /\ get_account(db, from).lots # <<>>
          /\ DOMAIN db.accounts = {from}
    /\ AllPending(db) = <<>>

\* ---- C36
\* C36: a split with no amount given moves the whole balance of the source, so
\* that once the transfer is confirmed the source holds no lot: the assertion
\* of the handler does not fail, the source account is removed, and the new
\* account holds the balance the source had.
C36_SplitAllEmptiesSource ==
    next_sig <= MaxSigs =>
    \A from_address \in Addresses :
    \A into_address \in Addresses \ {from_address},
       method \in Methods, lot_numbers \in LotNumberChoices :
        \E r \in {process_account_split(from_address, into_address, NoAmount, method,
                                        lot_numbers, "confirmed", TRUE)} :
            /\ r.err # "panic"
            /\ "confirmed" \in r.fate[next_sig]
               => /\ r.err = ""
                  /\ ~Tracked(r.db, <<from_address, "SOL">>)
                  /\ Tracked(r.db, <<into_address, "SOL">>)
                  /\ get_account(r.db, <<into_address, "SOL">>).last_update_balance
                         = get_account(db, <<from_address, "SOL">>).last_update_balance

\* A split of a whole account of more than one lot has been confirmed: the
\* source is gone and the new account holds its lots.
C36_Witness ==
    /\ last = ""
    /\ \E s \in Sigs : fate[s] = {"confirmed"} /\ sig_status[s] = "ok"
    /\ \E into \in {A1Sol, A2Sol} :
          /\ DOMAIN db.accounts = {into}
          /\ Len(get_account(db, into).lots) >= 2
          /\ LotBalanceOk(get_account(db, into))


\* ---- C39
\* C39: the loop of 'account lot collect' ends for every set of lots, and when
\* it ends with Done no lot of another account of the same asset comes
\* strictly before a lot of the target account in the order of the method.
C39_CollectEndsInOrder ==
    \A address \in Addresses, token \in Tokens, method \in Methods :
        \E r \in {process_account_lot_collect(address, token, method)} :
            /\ r.err # "loop"
            /\ r.err = ""
               => \A i \in DOMAIN LotsOf(r.db, <<address, token>>) :
                  \A j \in DOMAIN candidate_lots(r.db, <<address, token>>, KeyOrder) :
                      ~cmp_lots(method,
                                candidate_lots(r.db, <<address, token>>, KeyOrder)[j],
                                LotsOf(r.db, <<address, token>>)[i])

\* The same while every lot_number is held by one account
C39_CollectEndsInOrderOfDistinctLots ==
    (\A n \in 1..MaxLots : Cardinality(Holders(db, n)) <= 1)
        => C39_CollectEndsInOrder

====
